---- MODULE Spec2Model ----
(***************************************************************************)
(* Model of the task lifecycle store (app/services/task_manager.py), the   *)
(* scheduler with its dispatch loop, execution units and reclamation loop  *)
(* (app/services/task_scheduler.py) and the streaming pipeline             *)
(* (app/api/endpoints/chat_completion.py, app/llm/models/mlx_model.py).    *)
(*                                                                         *)
(* Granularity: every `await` of a Task Store operation, of a backend call *)
(* or of a sleep is a point where other coroutines may run.  The body of a *)
(* Task Store operation (the part under `async with self.lock`) contains   *)
(* no await and is one step, except in LockSpec.                           *)
(*                                                                         *)
(* Time: time.time() is taken to be non-decreasing and is counted in ticks *)
(* of TASK_MAX_AGE_HOURS, so that a record is exactly the maximum age old  *)
(* one tick after its creation and older after two.                        *)
(*                                                                         *)
(* Ids: uuid4 values are taken to be distinct; they are numbered in the    *)
(* order create_task issues them.                                          *)
(*                                                                         *)
(* Scheduler: one stop() call is in progress at a time.  The backend is an *)
(* external capability: a call to it returns some value (None included) or *)
(* raises, after any delay.                                                *)
(*                                                                         *)
(* Specifications: Spec is the scheduler with its store; StreamSpec is one *)
(* streaming request; StoreSpec and ListSpec are the Task Store under      *)
(* direct calls of its methods with any argument; SnapshotSpec is the      *)
(* status endpoint (app/api/endpoints/tasks.py) suspended on a coroutine   *)
(* result while the store is updated and cleaned.  DispatchSpec is the     *)
(* running scheduler with several tasks; LiveSpec is the scheduler started *)
(* and never stopped, under the event loop's fairness; BurstSpec is the    *)
(* dispatch loop facing more pending tasks than a page of list_tasks;      *)
(* BridgeSpec is a streaming request running beside callers of the store.  *)
(* StatusSpec is the status endpoint asked repeatedly; HoldSpec is a       *)
(* caller keeping a record of a list; LoadSpec is several coroutines       *)
(* resolving one model name; LockSpec is the Task Store with the body of   *)
(* each operation taken statement by statement under its lock, beside      *)
(* coroutines that call the backend.                                       *)
(***************************************************************************)
EXTENDS Integers, Sequences, FiniteSets, TLC

\* ------------------------------------------------------------------ bounds
MaxTasks == 1
MaxTime == 2
MaxLoops == 2
MaxIncr == 3
MaxStoreTasks == 2
MaxBurst == 101      \* tasks submitted before the dispatch loop's first scan
MaxCallers == 3      \* coroutines calling the store and the LLM interface at once

\* ------------------------------------------------------- program constants
TASK_MAX_AGE_HOURS == 48
DefaultLimit == 100

\* The clock advances in steps of the maximum age, counted in seconds: a task
\* is exactly TASK_MAX_AGE_HOURS old one tick after its creation.
TickSeconds == TASK_MAX_AGE_HOURS * 3600

\* The ids create_task issues in any of the specifications.
TaskIds == 1..(IF MaxTasks > MaxStoreTasks THEN MaxTasks ELSE MaxStoreTasks)
TaskTypes == {"text_generation", "chat_completion", "image_generation"}
Statuses == {"pending", "processing", "completed", "failed"}

\* Python's None, as a value a backend call may return and as the default of
\* update_task_status's result parameter.
None == [none |-> TRUE]
\* A text returned by the backend.  The store tests a result only for
\* `is not None`; the empty text is the non-None value closest to None.
Text(s) == [text |-> s]
\* The payload the scheduler stores for a failure: {"error": message}.
ErrorPayload(m) == [error |-> m]
\* The coroutine object MLXModel.generate and MLXModel.chat return:
\* asyncio.to_thread applied to an `async def`.
Coroutine == [coroutine |-> TRUE]

\* What a backend capability call can end with: a value or an exception.
BackendReturns == {None, Text("")}
BackendRaises == {"boom"}

VARIABLES
    tasks,        \* TaskManager.tasks: id -> record (ids are issued in increasing order: insertion order is id order)
    results,      \* TaskManager.results: id -> stored result
    issued,       \* number of ids create_task has handed out
    now,          \* time.time(), in ticks of TickSeconds
    running,      \* TaskScheduler.running
    wpc,          \* position of the _task_worker coroutine
    scan,         \* _task_worker: pending_tasks of the current cycle
    idx,          \* _task_worker: index of the task the for loop is at
    cleanups,     \* the _cleanup_worker coroutines that are alive (at most MaxLoops)
    cleanup_task, \* TaskScheduler.cleanup_task: the handle stop() cancels (0 = None)
    stoppc,       \* position of a stop() call in progress
    inflight,     \* since the last stop() and until the next start(): the processing tasks whose unit had not ended when stop() was called, nor when it returned
    eu,           \* id -> position of the task's execution unit
    euOut,        \* id -> what the unit's backend call ended with
    started,      \* id -> number of execution units created for the task
    hist,         \* id -> the statuses the store has held for the task, in order
    registry,     \* factory._LOADED_MODELS for the requested name: "absent", "mlx" or "mock"
    loaded,       \* the registered model's _loaded flag
    spc,          \* position of the streaming request
    yielded,      \* the increments the backend generator has produced, in order
    gen,          \* how the backend generator ended, NoOutcome while it has not
    out,          \* the events stream_response has yielded, in order
    ret,          \* what the last Task Store call of a caller returned or raised
    held,         \* the record a caller received from get_task_status
    locked,       \* TaskManager.lock is held
    cs,           \* coroutine -> the Task Store operation it is in and how far it is
    call          \* coroutine -> its position in a call into the LLM interface

taskVars == <<tasks, results, issued, now, running, wpc, scan, idx, cleanups,
              cleanup_task, stoppc, inflight, eu, euOut, started, hist>>
streamVars == <<registry, loaded, spc, yielded, gen, out>>
callerVars == <<ret, held>>
lockVars == <<locked, cs, call>>
vars == <<taskVars, streamVars, callerVars, lockVars>>

schedVars == <<running, wpc, scan, idx, cleanups, cleanup_task, stoppc, inflight>>
euVars == <<eu, euOut, started>>

NoRecord == [missing |-> TRUE]
NoOutcome == [pending |-> TRUE]

\* --------------------------------------------------------------- Task Store

\* The params mapping a caller hands to create_task.
Params == [prompt |-> "p"]

\* create_task: the record inserted under the lock.
NewTask(id, type, t) ==
    [id |-> id, type |-> type, params |-> Params, status |-> "pending", created_at |-> t]

\* The payload is falsy in Python: None or the empty text.
Falsy(result) == result = None \/ result = Text("")

\* update_task_status with the test written `if result:`.
UpdateTaskStatusTruthy(ts, rs, id, status, result, t) ==
    IF id \notin DOMAIN ts
    THEN [tasks |-> ts, results |-> rs, raised |-> TRUE]
    ELSE LET r1 == [ts[id] EXCEPT !.status = status]
         IN IF ~Falsy(result)
            THEN [tasks |-> [ts EXCEPT ![id] = ("completed_at" :> t) @@ r1],
                  results |-> (id :> result) @@ rs,
                  raised |-> FALSE]
            ELSE [tasks |-> [ts EXCEPT ![id] = r1], results |-> rs, raised |-> FALSE]

\* update_task_status storing the result without testing it.
UpdateTaskStatusAlwaysStore(ts, rs, id, status, result, t) ==
    IF id \notin DOMAIN ts
    THEN [tasks |-> ts, results |-> rs, raised |-> TRUE]
    ELSE [tasks |-> [ts EXCEPT ![id] = ("completed_at" :> t) @@ [ts[id] EXCEPT !.status = status]],
          results |-> (id :> result) @@ rs,
          raised |-> FALSE]

\* update_task_status storing the result before it looks the task up.
UpdateTaskStatusStoreFirst(ts, rs, id, status, result, t) ==
    LET rs1 == IF result # None THEN (id :> result) @@ rs ELSE rs
    IN IF id \notin DOMAIN ts
       THEN [tasks |-> ts, results |-> rs1, raised |-> TRUE]
       ELSE LET r1 == [ts[id] EXCEPT !.status = status]
            IN IF result # None
               THEN [tasks |-> [ts EXCEPT ![id] = ("completed_at" :> t) @@ r1],
                     results |-> rs1, raised |-> FALSE]
               ELSE [tasks |-> [ts EXCEPT ![id] = r1], results |-> rs1, raised |-> FALSE]

\* update_task_status stamping created_at with the time of the update.
UpdateTaskStatusRestamps(ts, rs, id, status, result, t) ==
    IF id \notin DOMAIN ts
    THEN [tasks |-> ts, results |-> rs, raised |-> TRUE]
    ELSE LET r1 == [ts[id] EXCEPT !.status = status, !.created_at = t]
         IN IF result # None
            THEN [tasks |-> [ts EXCEPT ![id] = ("completed_at" :> t) @@ r1],
                  results |-> (id :> result) @@ rs,
                  raised |-> FALSE]
            ELSE [tasks |-> [ts EXCEPT ![id] = r1], results |-> rs, raised |-> FALSE]

\* update_task_status, the part under the lock, on a store <<ts, rs>>:
\* the new store and whether KeyError was raised.
UpdateTaskStatus(ts, rs, id, status, result, t) ==
    IF id \notin DOMAIN ts
    THEN [tasks |-> ts, results |-> rs, raised |-> TRUE]
    ELSE LET r1 == [ts[id] EXCEPT !.status = status]
         IN IF result # None
            THEN [tasks |-> [ts EXCEPT ![id] = ("completed_at" :> t) @@ r1],
                  results |-> (id :> result) @@ rs,
                  raised |-> FALSE]
            ELSE [tasks |-> [ts EXCEPT ![id] = r1], results |-> rs, raised |-> FALSE]

\* get_task_status reading the record with `self.tasks.get(task_id, {})`.
GetTaskStatusOrEmpty(ts, rs, id) ==
    IF id \notin DOMAIN ts
    THEN [i \in {} |-> NoRecord]
    ELSE IF ts[id].status = "completed" /\ id \in DOMAIN rs
         THEN ("result" :> rs[id]) @@ ts[id]
         ELSE ts[id]

\* get_task_status: the copy of the record, with the result attached when
\* the status is "completed" and a result is stored; NoRecord for KeyError.
GetTaskStatus(ts, rs, id) ==
    IF id \notin DOMAIN ts
    THEN NoRecord
    ELSE IF ts[id].status = "completed" /\ id \in DOMAIN rs
         THEN ("result" :> rs[id]) @@ ts[id]
         ELSE ts[id]

\* The sort without reverse=True: oldest first.
SortOldestFirst(ts, S) ==
    LET Before(i, j) == \/ ts[i].created_at < ts[j].created_at
                        \/ (ts[i].created_at = ts[j].created_at /\ i < j)
        Rank == [i \in S |-> 1 + Cardinality({j \in S : Before(j, i)})]
    IN [k \in 1..Cardinality(S) |-> CHOOSE i \in S : Rank[i] = k]

\* Ids of a set, as the sequence sorted(key=created_at, reverse=True) gives:
\* a stable sort, so ties keep insertion (= id) order.  An id stands at the
\* position that counts the ids sorted before it.
SortNewestFirst(ts, S) ==
    LET Before(i, j) == \/ ts[i].created_at > ts[j].created_at
                        \/ (ts[i].created_at = ts[j].created_at /\ i < j)
        Rank == [i \in S |-> 1 + Cardinality({j \in S : Before(j, i)})]
    IN [k \in 1..Cardinality(S) |-> CHOOSE i \in S : Rank[i] = k]

\* tasks[skip:skip+limit]
Slice(s, skip, limit) ==
    [k \in 1..(IF Len(s) - skip < limit
               THEN (IF Len(s) - skip < 0 THEN 0 ELSE Len(s) - skip)
               ELSE limit) |-> s[skip + k]]

\* list_tasks without its status filter.
ListTasksNoFilter(ts, status, limit, skip) ==
    LET sorted == SortNewestFirst(ts, DOMAIN ts)
    IN [k \in DOMAIN Slice(sorted, skip, limit) |-> ts[Slice(sorted, skip, limit)[k]]]

\* list_tasks paginating before it filters.
ListTasksPaginateFirst(ts, status, limit, skip) ==
    LET page == Slice(SortNewestFirst(ts, DOMAIN ts), skip, limit)
        recs == [k \in DOMAIN page |-> ts[page[k]]]
    IN IF status # "" THEN SelectSeq(recs, LAMBDA r : r.status = status) ELSE recs

\* list_tasks: filter (when a status is given), sort, paginate.  "" stands for
\* status=None.  The elements are the store's records.
ListTasks(ts, status, limit, skip) ==
    LET S == IF status # "" THEN {i \in DOMAIN ts : ts[i].status = status}
             ELSE DOMAIN ts
        sorted == SortNewestFirst(ts, S)
    IN [k \in DOMAIN Slice(sorted, skip, limit) |-> ts[Slice(sorted, skip, limit)[k]]]

\* clean_old_tasks: the ids it collects in to_remove.  max_age_hours = 0
\* stands for None as well (`max_age_hours or settings.TASK_MAX_AGE_HOURS`).
ToRemove(ts, max_age_hours, t) ==
    LET hours == IF max_age_hours = 0 THEN TASK_MAX_AGE_HOURS ELSE max_age_hours
    IN {i \in DOMAIN ts : t * TickSeconds - ts[i].created_at * TickSeconds > hours * 3600}

Without(f, S) == [i \in DOMAIN f \ S |-> f[i]]

\* History of statuses: one entry per write of a record's status.
Record(h, id, status) == [h EXCEPT ![id] = Append(@, status)]

\* ------------------------------------------------------------------ callers

\* TaskManager.create_task (reached through schedule_text_generation,
\* schedule_chat_completion, or directly with any type).
CreateTask(type) ==
    /\ issued < MaxTasks
    /\ LET id == issued + 1
       IN /\ tasks' = (id :> NewTask(id, type, now)) @@ tasks
          /\ hist' = Record(hist, id, "pending")
    /\ issued' = issued + 1
    /\ UNCHANGED <<results, now, schedVars, euVars>>
    /\ UNCHANGED <<streamVars, callerVars, lockVars>>

\* Time passes.
Tick ==
    /\ now < MaxTime
    /\ now' = now + 1
    /\ UNCHANGED <<tasks, results, issued, schedVars, euVars, hist>>
    /\ UNCHANGED <<streamVars, callerVars, lockVars>>

\* --------------------------------------------------------------- scheduler

\* The handle asyncio.create_task returns for a new cleanup loop: the
\* smallest one no live loop has.
FreshLoop == CHOOSE c \in 1..MaxLoops : c \notin cleanups /\ \A d \in 1..(c - 1) : d \in cleanups

\* TaskScheduler.start: no-op when running; else creates the two loops.
Start ==
    /\ ~running
    /\ Cardinality(cleanups) < MaxLoops
    /\ running' = TRUE
    /\ wpc' = "top"
    /\ scan' = <<>>
    /\ idx' = 0
    /\ cleanups' = cleanups \cup {FreshLoop}
    /\ cleanup_task' = FreshLoop
    /\ inflight' = {}
    /\ UNCHANGED <<tasks, results, issued, now, stoppc, euVars, hist>>
    /\ UNCHANGED <<streamVars, callerVars, lockVars>>

\* An execution unit that has been started and has not ended.
UnitInFlight(id) == eu[id] \in {"calling", "returned", "raised"}

\* A stop that also cancelled the execution units in flight.
StopBeginCancelsUnits ==
    /\ running
    /\ stoppc = "idle"
    /\ running' = FALSE
    /\ wpc' = "dead"
    /\ scan' = <<>>
    /\ idx' = 0
    /\ stoppc' = "await_worker"
    /\ inflight' = {id \in DOMAIN tasks : tasks[id].status = "processing" /\ UnitInFlight(id)}
    /\ eu' = [id \in TaskIds |-> IF UnitInFlight(id) THEN "cancelled" ELSE eu[id]]
    /\ UNCHANGED <<tasks, results, issued, now, cleanups, cleanup_task,
                   euOut, started, hist>>
    /\ UNCHANGED <<streamVars, callerVars, lockVars>>

\* TaskScheduler.stop up to `await self.worker_task`: clears running and
\* cancels the dispatch loop.  A cancelled coroutine runs no further statement
\* of the loop (CancelledError is raised at the await it is suspended at and
\* the loop breaks), so the loop is dead from here on.
StopBegin ==
    /\ running
    /\ stoppc = "idle"
    /\ running' = FALSE
    /\ wpc' = "dead"
    /\ scan' = <<>>
    /\ idx' = 0
    /\ stoppc' = "await_worker"
    /\ inflight' = {id \in DOMAIN tasks : tasks[id].status = "processing" /\ UnitInFlight(id)}
    /\ UNCHANGED <<tasks, results, issued, now, cleanups, cleanup_task,
                   euVars, hist>>
    /\ UNCHANGED <<streamVars, callerVars, lockVars>>

\* stop resumes after the worker ended: cancels self.cleanup_task, whatever
\* that attribute holds by now, and awaits it.
StopCancelCleanup ==
    /\ stoppc = "await_worker"
    /\ cleanups' = cleanups \ {cleanup_task}
    /\ stoppc' = "await_cleanup"
    /\ UNCHANGED <<tasks, results, issued, now, running, wpc, scan, idx,
                   cleanup_task, inflight, euVars, hist>>
    /\ UNCHANGED <<streamVars, callerVars, lockVars>>

\* A stop that returns only when no execution unit is in flight.
StopReturnAwaitsUnits ==
    /\ stoppc = "await_cleanup"
    /\ \A id \in TaskIds : ~UnitInFlight(id)
    /\ stoppc' = "idle"
    /\ inflight' = {id \in inflight : UnitInFlight(id)}
    /\ UNCHANGED <<tasks, results, issued, now, running, wpc, scan, idx,
                   cleanups, cleanup_task, euVars, hist>>
    /\ UNCHANGED <<streamVars, callerVars, lockVars>>

\* stop returns.
StopReturn ==
    /\ stoppc = "await_cleanup"
    /\ stoppc' = "idle"
    /\ inflight' = {id \in inflight : UnitInFlight(id)}
    /\ UNCHANGED <<tasks, results, issued, now, running, wpc, scan, idx,
                   cleanups, cleanup_task, euVars, hist>>
    /\ UNCHANGED <<streamVars, callerVars, lockVars>>

\* A scan that asks the store for the processing tasks.
WorkerScanProcessing ==
    /\ wpc = "top"
    /\ IF running
       THEN LET pending_tasks == ListTasks(tasks, "processing", DefaultLimit, 0)
            IN /\ scan' = pending_tasks
               /\ idx' = 1
               /\ wpc' = IF pending_tasks = <<>> THEN "sleep" ELSE "claim"
       ELSE /\ wpc' = "dead"
            /\ UNCHANGED <<scan, idx>>
    /\ UNCHANGED <<tasks, results, issued, now, running, cleanups, cleanup_task,
                   stoppc, inflight, euVars, hist>>
    /\ UNCHANGED <<streamVars, callerVars, lockVars>>

\* _task_worker, top of the while loop: list_tasks(status="pending").
WorkerScan ==
    /\ wpc = "top"
    /\ IF running
       THEN LET pending_tasks == ListTasks(tasks, "pending", DefaultLimit, 0)
            IN /\ scan' = pending_tasks
               /\ idx' = 1
               /\ wpc' = IF pending_tasks = <<>> THEN "sleep" ELSE "claim"
       ELSE /\ wpc' = "dead"
            /\ UNCHANGED <<scan, idx>>
    /\ UNCHANGED <<tasks, results, issued, now, running, cleanups, cleanup_task,
                   stoppc, inflight, euVars, hist>>
    /\ UNCHANGED <<streamVars, callerVars, lockVars>>

\* Where the for loop goes after the task at index i.
AfterTask(i) == IF i < Len(scan) THEN "claim" ELSE "sleep"

\* A dispatch that sends every type to an execution routine.
RegisteredAny(type) == type \in TaskTypes

\* The branch the loop takes on a task's type after claiming it.
Registered(type) == type \in {"text_generation", "chat_completion"}

\* The for loop starting the execution unit without first moving the task
\* to processing.
WorkerClaimNoMark ==
    /\ wpc = "claim"
    /\ LET task == scan[idx]
       IN IF task.id \notin DOMAIN tasks
          THEN /\ wpc' = "backoff"
               /\ UNCHANGED <<idx, euVars>>
          ELSE IF Registered(task.type)
               THEN /\ eu' = [eu EXCEPT ![task.id] = "calling"]
                    /\ started' = [started EXCEPT ![task.id] = @ + 1]
                    /\ wpc' = AfterTask(idx)
                    /\ idx' = idx + 1
                    /\ UNCHANGED euOut
               ELSE /\ wpc' = "fail"
                    /\ UNCHANGED <<idx, euVars>>
    /\ UNCHANGED <<tasks, results, hist, issued, now, running, scan, cleanups,
                   cleanup_task, stoppc, inflight>>
    /\ UNCHANGED <<streamVars, callerVars, lockVars>>

\* The for loop awaiting each execution routine: it goes on to the next
\* task only when no backend call is in progress.
WorkerClaimAwaitsUnit ==
    /\ wpc = "claim"
    /\ \A j \in TaskIds : eu[j] # "calling"
    /\ LET task == scan[idx]
           u == UpdateTaskStatus(tasks, results, task.id, "processing", None, now)
       IN IF u.raised
          THEN /\ wpc' = "backoff"
               /\ UNCHANGED <<tasks, results, idx, euVars, hist>>
          ELSE /\ tasks' = u.tasks
               /\ results' = u.results
               /\ hist' = Record(hist, task.id, "processing")
               /\ IF Registered(task.type)
                  THEN /\ eu' = [eu EXCEPT ![task.id] = "calling"]
                       /\ started' = [started EXCEPT ![task.id] = @ + 1]
                       /\ wpc' = AfterTask(idx)
                       /\ idx' = idx + 1
                       /\ UNCHANGED euOut
                  ELSE /\ wpc' = "fail"
                       /\ UNCHANGED <<idx, euVars>>
    /\ UNCHANGED <<issued, now, running, scan, cleanups, cleanup_task,
                   stoppc, inflight>>
    /\ UNCHANGED <<streamVars, callerVars, lockVars>>

\* A claim whose store error ends the loop.
WorkerClaimUncaught ==
    /\ wpc = "claim"
    /\ LET task == scan[idx]
           u == UpdateTaskStatus(tasks, results, task.id, "processing", None, now)
       IN IF u.raised
          THEN /\ wpc' = "dead"
               /\ UNCHANGED <<tasks, results, idx, euVars, hist>>
          ELSE /\ tasks' = u.tasks
               /\ results' = u.results
               /\ hist' = Record(hist, task.id, "processing")
               /\ IF Registered(task.type)
                  THEN /\ eu' = [eu EXCEPT ![task.id] = "calling"]
                       /\ started' = [started EXCEPT ![task.id] = @ + 1]
                       /\ wpc' = AfterTask(idx)
                       /\ idx' = idx + 1
                       /\ UNCHANGED euOut
                  ELSE /\ wpc' = "fail"
                       /\ UNCHANGED <<idx, euVars>>
    /\ UNCHANGED <<issued, now, running, scan, cleanups, cleanup_task,
                   stoppc, inflight>>
    /\ UNCHANGED <<streamVars, callerVars, lockVars>>

\* _task_worker, one iteration of the for loop up to its next await:
\* update_task_status(task_id, "processing"), then asyncio.create_task(...)
\* for a registered type, or on to the update that fails the task.
WorkerClaim ==
    /\ wpc = "claim"
    /\ LET task == scan[idx]
           u == UpdateTaskStatus(tasks, results, task.id, "processing", None, now)
       IN IF u.raised
          THEN /\ wpc' = "backoff"
               /\ UNCHANGED <<tasks, results, idx, euVars, hist>>
          ELSE /\ tasks' = u.tasks
               /\ results' = u.results
               /\ hist' = Record(hist, task.id, "processing")
               /\ IF Registered(task.type)
                  THEN /\ eu' = [eu EXCEPT ![task.id] = "calling"]
                       /\ started' = [started EXCEPT ![task.id] = @ + 1]
                       /\ wpc' = AfterTask(idx)
                       /\ idx' = idx + 1
                       /\ UNCHANGED euOut
                  ELSE /\ wpc' = "fail"
                       /\ UNCHANGED <<idx, euVars>>
    /\ UNCHANGED <<issued, now, running, scan, cleanups, cleanup_task,
                   stoppc, inflight>>
    /\ UNCHANGED <<streamVars, callerVars, lockVars>>

\* The payload with the type left out of the message.
UnknownTypePayloadNoType(type) == ErrorPayload("Unknown task type")

\* The payload stored for a task of an unknown type.
UnknownTypePayload(type) == ErrorPayload("Unknown task type: " \o type)

\* _task_worker, else branch: update_task_status(task_id, "failed", {...}).
WorkerFailUnknown ==
    /\ wpc = "fail"
    /\ LET task == scan[idx]
           u == UpdateTaskStatus(tasks, results, task.id, "failed",
                                 UnknownTypePayload(task.type), now)
       IN IF u.raised
          THEN /\ wpc' = "backoff"
               /\ UNCHANGED <<tasks, results, idx, hist>>
          ELSE /\ tasks' = u.tasks
               /\ results' = u.results
               /\ hist' = Record(hist, task.id, "failed")
               /\ wpc' = AfterTask(idx)
               /\ idx' = idx + 1
    /\ UNCHANGED <<issued, now, running, scan, cleanups, cleanup_task,
                   stoppc, inflight, euVars>>
    /\ UNCHANGED <<streamVars, callerVars, lockVars>>

\* asyncio.sleep(0.1) at the end of a cycle, or asyncio.sleep(1) in the
\* `except Exception` handler, returns.
WorkerWake ==
    /\ wpc \in {"sleep", "backoff"}
    /\ wpc' = "top"
    /\ scan' = <<>>
    /\ idx' = 0
    /\ UNCHANGED <<tasks, results, issued, now, running, cleanups, cleanup_task,
                   stoppc, inflight, euVars, hist>>
    /\ UNCHANGED <<streamVars, callerVars, lockVars>>

\* A cleanup that removes the records and leaves their results.
CleanupWakeKeepsResults(c) ==
    /\ c \in cleanups
    /\ tasks' = Without(tasks, ToRemove(tasks, 0, now))
    /\ cleanups' = IF running THEN cleanups ELSE cleanups \ {c}
    /\ UNCHANGED <<results, issued, now, running, wpc, scan, idx, cleanup_task,
                   stoppc, inflight, euVars, hist>>
    /\ UNCHANGED <<streamVars, callerVars, lockVars>>

\* _cleanup_worker c: the sleep returns, clean_old_tasks() runs, then the
\* while condition is tested.
CleanupWake(c) ==
    /\ c \in cleanups
    /\ LET gone == ToRemove(tasks, 0, now)
       IN /\ tasks' = Without(tasks, gone)
          /\ results' = Without(results, gone)
    /\ cleanups' = IF running THEN cleanups ELSE cleanups \ {c}
    /\ UNCHANGED <<issued, now, running, wpc, scan, idx, cleanup_task,
                   stoppc, inflight, euVars, hist>>
    /\ UNCHANGED <<streamVars, callerVars, lockVars>>

\* ---------------------------------------------------------- execution unit
\* _process_text_generation / _process_chat_completion: the two routines
\* differ only in the capability they call.

Returned(r) == [ret |-> r]
Raised(m) == [exc |-> m]

\* The awaited self.llm.generate_text / chat_completion call returns r.
BackendReturn(id, r) ==
    /\ eu[id] = "calling"
    /\ eu' = [eu EXCEPT ![id] = "returned"]
    /\ euOut' = [euOut EXCEPT ![id] = Returned(r)]
    /\ UNCHANGED <<tasks, results, issued, now, schedVars, started, hist>>
    /\ UNCHANGED <<streamVars, callerVars, lockVars>>

\* The awaited call raises an exception with message m.
BackendRaise(id, m) ==
    /\ eu[id] = "calling"
    /\ eu' = [eu EXCEPT ![id] = "raised"]
    /\ euOut' = [euOut EXCEPT ![id] = Raised(m)]
    /\ UNCHANGED <<tasks, results, issued, now, schedVars, started, hist>>
    /\ UNCHANGED <<streamVars, callerVars, lockVars>>

\* try block, second statement: update_task_status(task_id, "completed",
\* result).  Its KeyError is an exception of the try block as well.
UnitComplete(id) ==
    /\ eu[id] = "returned"
    /\ LET u == UpdateTaskStatus(tasks, results, id, "completed", euOut[id].ret, now)
       IN IF u.raised
          THEN /\ eu' = [eu EXCEPT ![id] = "raised"]
               /\ euOut' = [euOut EXCEPT ![id] = Raised("Task not found")]
               /\ UNCHANGED <<tasks, results, hist>>
          ELSE /\ tasks' = u.tasks
               /\ results' = u.results
               /\ hist' = Record(hist, id, "completed")
               /\ eu' = [eu EXCEPT ![id] = "done"]
               /\ UNCHANGED euOut
    /\ UNCHANGED <<issued, now, schedVars, started>>
    /\ UNCHANGED <<streamVars, callerVars, lockVars>>

\* The except clause of an execution routine also shutting the scheduler
\* down.
UnitFailStopsScheduler(id) ==
    /\ eu[id] = "raised"
    /\ LET u == UpdateTaskStatus(tasks, results, id, "failed",
                                 ErrorPayload(euOut[id].exc), now)
       IN IF u.raised
          THEN /\ eu' = [eu EXCEPT ![id] = "crashed"]
               /\ UNCHANGED <<tasks, results, hist>>
          ELSE /\ tasks' = u.tasks
               /\ results' = u.results
               /\ hist' = Record(hist, id, "failed")
               /\ eu' = [eu EXCEPT ![id] = "done"]
    /\ running' = FALSE
    /\ wpc' = "dead"
    /\ UNCHANGED <<issued, now, scan, idx, cleanups, cleanup_task, stoppc, inflight,
                   euOut, started>>
    /\ UNCHANGED <<streamVars, callerVars, lockVars>>

\* except Exception as e: update_task_status(task_id, "failed",
\* {"error": str(e)}).  A KeyError raised here leaves the coroutine.
UnitFail(id) ==
    /\ eu[id] = "raised"
    /\ LET u == UpdateTaskStatus(tasks, results, id, "failed",
                                 ErrorPayload(euOut[id].exc), now)
       IN IF u.raised
          THEN /\ eu' = [eu EXCEPT ![id] = "crashed"]
               /\ UNCHANGED <<tasks, results, hist>>
          ELSE /\ tasks' = u.tasks
               /\ results' = u.results
               /\ hist' = Record(hist, id, "failed")
               /\ eu' = [eu EXCEPT ![id] = "done"]
    /\ UNCHANGED <<issued, now, schedVars, euOut, started>>
    /\ UNCHANGED <<streamVars, callerVars, lockVars>>

\* ------------------------------------------------------- streaming pipeline
\* stream_response (chat_completion.py) iterates
\* TaskScheduler.stream_chat_completion, which iterates the model's
\* chat_stream.  The three generators run as one sequential computation; a
\* step below is one piece of it between two points where the outcome of an
\* external call (load, tokenizer, generator) is decided.

Increments == {"", "a", "b"}

\* The messages of the exceptions the backend generator raises.
GeneratorRaises == {"boom", "out of memory"}

\* The chunks chat_stream and stream_chat_completion yield.
RoleChunk == [delta |-> [role |-> "assistant"], finish_reason |-> "None"]
ContentChunk(t) == [delta |-> [content |-> t], finish_reason |-> "None"]
FinalChunk == [delta |-> <<>>, finish_reason |-> "stop"]
\* The error chunk of chat_stream carries "object"; the one of
\* stream_chat_completion is the bare {"error": {...}}.
ChatStreamErrorChunk(m) ==
    [object |-> "chat.completion.chunk",
     error |-> [message |-> m, type |-> "server_error"]]
ErrorChunk(m) == [error |-> [message |-> m, type |-> "server_error"]]

\* stream_response: b"data: " + json.dumps(chunk) + b"\n\n", and the
\* b"data: [DONE]\n\n" sentinel.
Sse(chunk) == [data |-> "json", chunk |-> chunk]
DoneEvent == [data |-> "[DONE]"]

Emit(chunks) == out' = out \o [k \in DOMAIN chunks |-> Sse(chunks[k])]

\* chat_stream with its final chunk yielded after the try statement.
ChatStreamOnExceptionThenFinal(m) == <<ChatStreamErrorChunk(m), FinalChunk>>

\* chat_stream reporting a fixed text in place of str(e).
ChatStreamOnExceptionGeneric(m) ==
    <<ChatStreamErrorChunk("Internal server error")>>

\* chat_stream, `except Exception as e`: the chunks yielded from there on.
ChatStreamOnException(m) == <<ChatStreamErrorChunk(m)>>

\* chat_stream without the `if response.text` test.
ChatStreamOnIncrementAlways(t) == <<ContentChunk(t)>>

\* chat_stream, the body of `for response in generator`: the chunks
\* yielded for an increment.
ChatStreamOnIncrement(t) == IF t # "" THEN <<ContentChunk(t)>> ELSE <<>>

\* stream_chat_completion, `except Exception as e`: the chunk yielded.
SchedulerOnException(m) == <<ErrorChunk(m)>>

\* A streaming request that registers itself as a task.
StreamBeginCreatesTask ==
    /\ spc = "idle"
    /\ spc' = "acquire"
    /\ tasks' = ((issued + 1) :> NewTask(issued + 1, "chat_completion", now)) @@ tasks
    /\ issued' = issued + 1
    /\ UNCHANGED <<registry, loaded, yielded, gen, out>>
    /\ UNCHANGED <<results, now, schedVars, euVars, hist, callerVars, lockVars>>

\* A streaming request arrives: stream_response starts iterating.
StreamBegin ==
    /\ spc = "idle"
    /\ spc' = "acquire"
    /\ UNCHANGED <<registry, loaded, yielded, gen, out>>
    /\ UNCHANGED <<taskVars, callerVars, lockVars>>

\* stream_chat_completion: get_model; create, register and load a model that
\* is not registered, load one that is not loaded.  load() reports a failure
\* in its return value, which is not looked at; MockLLMModel.load cannot fail.
StreamAcquire(ok) ==
    /\ spc = "acquire"
    /\ IF registry = "absent"
       THEN registry' = "mlx" /\ loaded' = ok
       ELSE IF ~loaded
            THEN registry' = registry /\ loaded' = (ok \/ registry = "mock")
            ELSE ok /\ UNCHANGED <<registry, loaded>>
    /\ spc' = "check"
    /\ UNCHANGED <<yielded, gen, out>>
    /\ UNCHANGED <<taskVars, callerVars, lockVars>>

\* stream_chat_completion calling model.chat_stream without the hasattr
\* test: the AttributeError is caught by the same except clause.
StreamCheckNoHasattr ==
    /\ spc = "check"
    /\ IF registry = "mock"
       THEN /\ Emit(SchedulerOnException("object has no attribute chat_stream"))
            /\ spc' = "ended"
       ELSE /\ spc' = "open"
            /\ UNCHANGED out
    /\ UNCHANGED <<registry, loaded, yielded, gen>>
    /\ UNCHANGED <<taskVars, callerVars, lockVars>>

\* stream_chat_completion: hasattr(model, "chat_stream"); NotImplementedError
\* is caught by the function's own except clause.
StreamCheck ==
    /\ spc = "check"
    /\ IF registry = "mock"
       THEN /\ Emit(SchedulerOnException("Model does not support streaming"))
            /\ spc' = "ended"
       ELSE /\ spc' = "open"
            /\ UNCHANGED out
    /\ UNCHANGED <<registry, loaded, yielded, gen>>
    /\ UNCHANGED <<taskVars, callerVars, lockVars>>

\* chat_stream up to its first yield: load again when not loaded, then the
\* role chunk.
ChatStreamOpen(ok) ==
    /\ spc = "open"
    /\ IF loaded THEN ok /\ UNCHANGED loaded ELSE loaded' = ok
    /\ Emit(<<RoleChunk>>)
    /\ spc' = "prepare"
    /\ UNCHANGED <<registry, yielded, gen>>
    /\ UNCHANGED <<taskVars, callerVars, lockVars>>

\* chat_stream, the try block up to the for loop: chat template, encode,
\* run_in_executor.  With the model not loaded the tokenizer is None and
\* encode raises; otherwise any of the calls may raise.
ChatStreamPrepare(ok) ==
    /\ spc = "prepare"
    /\ IF ok /\ loaded
       THEN /\ spc' = "generate"
            /\ UNCHANGED out
       ELSE /\ Emit(ChatStreamOnException(IF loaded THEN "boom" ELSE "no tokenizer"))
            /\ spc' = "ended"
    /\ UNCHANGED <<registry, loaded, yielded, gen>>
    /\ UNCHANGED <<taskVars, callerVars, lockVars>>

\* The generator produces an increment with text t.
GeneratorYield(t) ==
    /\ spc = "generate"
    /\ Len(yielded) < MaxIncr
    /\ yielded' = Append(yielded, t)
    /\ Emit(ChatStreamOnIncrement(t))
    /\ UNCHANGED <<registry, loaded, spc, gen>>
    /\ UNCHANGED <<taskVars, callerVars, lockVars>>

\* The generator raises an exception with message m.
GeneratorRaise(m) ==
    /\ spc = "generate"
    /\ Emit(ChatStreamOnException(m))
    /\ gen' = [raised |-> m]
    /\ spc' = "ended"
    /\ UNCHANGED <<registry, loaded, yielded>>
    /\ UNCHANGED <<taskVars, callerVars, lockVars>>

\* The generator is exhausted: the final chunk.
GeneratorExhausted ==
    /\ spc = "generate"
    /\ Emit(<<FinalChunk>>)
    /\ gen' = [exhausted |-> TRUE]
    /\ spc' = "ended"
    /\ UNCHANGED <<registry, loaded, yielded>>
    /\ UNCHANGED <<taskVars, callerVars, lockVars>>

\* stream_response sending the sentinel only after a chunk that is not an
\* error chunk.
StreamDoneUnlessError ==
    /\ spc = "ended"
    /\ out' = IF "error" \in DOMAIN out[Len(out)].chunk
              THEN out
              ELSE Append(out, DoneEvent)
    /\ spc' = "closed"
    /\ UNCHANGED <<registry, loaded, yielded, gen>>
    /\ UNCHANGED <<taskVars, callerVars, lockVars>>

\* stream_response: the inner generator is exhausted, the sentinel follows.
StreamDone ==
    /\ spc = "ended"
    /\ out' = Append(out, DoneEvent)
    /\ spc' = "closed"
    /\ UNCHANGED <<registry, loaded, yielded, gen>>
    /\ UNCHANGED <<taskVars, callerVars, lockVars>>

\* ------------------------------------------ direct calls of the Task Store
\* The public methods of TaskManager called by any caller with any argument
\* (the HTTP endpoints, the scheduler, a maintenance script), one call at a
\* time: every method body runs under the lock without suspending.

\* The ids a caller may pass: the ones create_task can return and one it
\* never returns.
StoreIds == 1..(MaxStoreTasks + 1)

\* The coroutines that call the Task Store and the LLM interface
\* concurrently: execution units, request handlers, the loops.
Callers == 1..MaxCallers

\* A coroutine that is in no Task Store operation.
Outside == [op |-> "none"]

\* The max_age_hours arguments; 0 is also what None stands for.
MaxAgeHours == {0, TASK_MAX_AGE_HOURS, 2 * TASK_MAX_AGE_HOURS}

restVars == <<schedVars, euVars, hist, streamVars, lockVars>>

\* get_task_status returning the store's dict itself.
ReturnedObjectShared(id) == [id |-> id, shared |-> TRUE]

\* get_task_status returns `self.tasks[task_id].copy()`: the caller's dict
\* is an object of its own, not the store's.
ReturnedObject(id) == [id |-> id, shared |-> FALSE]

\* What a caller holding h sees once the store's records are ts2: a dict
\* shared with the store shows the writes made to it.
Seen(h, ts2) ==
    IF h # NoRecord /\ h.obj.shared /\ h.obj.id \in DOMAIN ts2
    THEN [h EXCEPT !.rec = ts2[h.obj.id]]
    ELSE h

\* create_task numbering the tasks by the size of the store.
CallCreateTaskCounted(type) ==
    /\ issued < MaxStoreTasks
    /\ LET id == Cardinality(DOMAIN tasks) + 1
       IN /\ tasks' = (id :> NewTask(id, type, now)) @@ tasks
          /\ issued' = issued + 1
          /\ ret' = [op |-> "create_task", id |-> id]
    /\ UNCHANGED <<results, now, held, restVars>>

\* create_task: a fresh id (uuid4), the record inserted, the id returned.
CallCreateTask(type) ==
    /\ issued < MaxStoreTasks
    /\ LET id == issued + 1
       IN /\ tasks' = (id :> NewTask(id, type, now)) @@ tasks
          /\ issued' = id
          /\ ret' = [op |-> "create_task", id |-> id]
    /\ UNCHANGED <<results, now, held, restVars>>

\* update_task_status(id, status, result).
CallUpdateTaskStatus(id, status, result) ==
    /\ LET u == UpdateTaskStatus(tasks, results, id, status, result, now)
       IN /\ tasks' = u.tasks
          /\ results' = u.results
          /\ ret' = [op |-> "update_task_status", raised |-> u.raised]
    /\ held' = Seen(held, tasks')
    /\ UNCHANGED <<issued, now, restVars>>

\* GET /tasks/{task_id} for an id whose result, if any, is not a coroutine:
\* get_task_status, KeyError turned into HTTP 404, the record returned as
\* the response.  The handler does not suspend after the store call.
CallGetTaskStatus(id) ==
    /\ LET rec == GetTaskStatus(tasks, results, id)
       IN /\ ~("result" \in DOMAIN rec /\ rec.result = Coroutine)
          /\ ret' = [op |-> "get_task_status",
                     status_code |-> IF rec = NoRecord THEN 404 ELSE 200]
    /\ UNCHANGED <<tasks, results, issued, now, held, restVars>>

\* GET /tasks/{task_id} for a completed task whose result is a coroutine:
\* the handler holds the record it received while it awaits the result.
EndpointAwait(id) ==
    /\ LET rec == GetTaskStatus(tasks, results, id)
       IN /\ "result" \in DOMAIN rec
          /\ rec.result = Coroutine
          /\ held' = [obj |-> ReturnedObject(id), rec |-> rec]
    /\ UNCHANGED <<tasks, results, issued, now, ret, restVars>>

\* The same handler after the await: it assigns the awaited value to
\* result, or, when the await raised, an error payload to result and
\* "failed" to status, in the record it holds, and returns that record.
EndpointAfterAwait(ok) ==
    /\ held # NoRecord
    /\ held.rec.result = Coroutine
    /\ LET rec == IF ok
                  THEN [held.rec EXCEPT !.result = Text("")]
                  ELSE [held.rec EXCEPT
                            !.result = ErrorPayload("Error in task execution"),
                            !.status = "failed"]
       IN /\ held' = [held EXCEPT !.rec = rec]
          /\ tasks' = IF held.obj.shared /\ held.obj.id \in DOMAIN tasks
                      THEN [tasks EXCEPT ![held.obj.id] = rec]
                      ELSE tasks
    /\ ret' = [op |-> "get_task_status", status_code |-> 200]
    /\ UNCHANGED <<results, issued, now, restVars>>

\* A coroutine object that has been awaited: the same object, exhausted.
AwaitedCoroutine == [coroutine |-> TRUE, awaited |-> TRUE]

\* The response of GET /tasks/{task_id}.
Response(id, code, body) ==
    [op |-> "status_request", id |-> id, status_code |-> code, body |-> body]

\* GET /tasks/{task_id}, the whole handler, for a result that is the
\* coroutine MLXModel.generate / chat return (asyncio.to_thread applied to
\* an async function gives its coroutine object back unawaited; the
\* coroutine has no await of its own, so awaiting it does not suspend).
\* The first await runs the coroutine, which returns the text (ok) or
\* raises; the object in the store is exhausted from then on.  Awaiting it
\* again raises RuntimeError("cannot reuse already awaited coroutine"),
\* which does not contain the text the handler tests for and is re-raised:
\* the request fails with a server error.
StatusRequest(id, ok) ==
    /\ LET rec == GetTaskStatus(tasks, results, id)
       IN IF rec = NoRecord
          THEN /\ ret' = Response(id, 404, NoRecord)
               /\ UNCHANGED results
          ELSE IF "result" \in DOMAIN rec /\ rec.result = Coroutine
          THEN /\ results' = [results EXCEPT ![id] = AwaitedCoroutine]
               /\ ret' = Response(id, 200,
                     IF ok
                     THEN [rec EXCEPT !.result = Text("")]
                     ELSE [rec EXCEPT
                              !.result = ErrorPayload("Error in task execution"),
                              !.status = "failed"])
          ELSE IF "result" \in DOMAIN rec /\ rec.result = AwaitedCoroutine
          THEN /\ ret' = Response(id, 500, NoRecord)
               /\ UNCHANGED results
          ELSE /\ ret' = Response(id, 200, rec)
               /\ UNCHANGED results
    /\ UNCHANGED <<tasks, issued, now, held, restVars>>

\* list_tasks(status, limit, skip): the list returned.
CallListTasks(status, limit, skip) ==
    /\ ret' = [op |-> "list_tasks", status |-> status, limit |-> limit,
               skip |-> skip, value |-> ListTasks(tasks, status, limit, skip)]
    /\ UNCHANGED <<tasks, results, issued, now, held, restVars>>

\* The object an element of the list list_tasks returns is: the list is
\* built from self.tasks.values() by filtering, sorting and slicing, none
\* of which copies an element, so it is the store's own dict.
ListedObject(id) == [id |-> id, shared |-> TRUE]

\* A caller calls list_tasks(status) and keeps element k of the list.
ListAndHold(status, k) ==
    /\ LET listed == ListTasks(tasks, status, DefaultLimit, 0)
       IN /\ k \in DOMAIN listed
          /\ held' = [obj |-> ListedObject(listed[k].id), rec |-> listed[k]]
          /\ ret' = [op |-> "list_tasks", status |-> status, limit |-> DefaultLimit,
                     skip |-> 0, value |-> listed]
    /\ UNCHANGED <<tasks, results, issued, now, restVars>>

\* The caller assigns a status to the record it holds.  An assignment to
\* the store's own dict is an assignment to the store's record.
CallerAssigns(status) ==
    /\ held # NoRecord
    /\ held' = [held EXCEPT !.rec.status = status]
    /\ tasks' = IF held.obj.shared /\ held.obj.id \in DOMAIN tasks
                THEN [tasks EXCEPT ![held.obj.id] = held'.rec]
                ELSE tasks
    /\ UNCHANGED <<results, issued, now, ret, restVars>>

\* A coroutine inside a load() of the model.
Loading(p) == call[p] \in {"loading", "reloading"}

\* A Task Store block that calls the LLM interface before it ends.
InterfaceResolveUnderLock(p) ==
    /\ call[p] = "idle"
    /\ IF registry = "absent"
       THEN registry' = "mlx" /\ call' = [call EXCEPT ![p] = "loading"]
       ELSE /\ registry' = registry
            /\ call' = [call EXCEPT ![p] = IF loaded THEN "generating" ELSE "loading"]
    /\ UNCHANGED <<loaded, spc, yielded, gen, out, locked, cs>>
    /\ UNCHANGED <<taskVars, callerVars>>

\* generate_text / chat_completion / stream_chat_completion up to the first
\* await: get_model; with no model under the name create and register one
\* and await its load(); with a model that is not loaded await its load();
\* with a loaded model call it.
InterfaceResolve(p) ==
    /\ call[p] = "idle"
    /\ cs[p] = Outside
    /\ IF registry = "absent"
       THEN registry' = "mlx" /\ call' = [call EXCEPT ![p] = "loading"]
       ELSE /\ registry' = registry
            /\ call' = [call EXCEPT ![p] = IF loaded THEN "generating" ELSE "loading"]
    /\ UNCHANGED <<loaded, spc, yielded, gen, out, locked, cs>>
    /\ UNCHANGED <<taskVars, callerVars>>

\* MLXModel.load() ends: a successful load sets _loaded, a failed one is
\* logged and reported in the returned dict.  The caller then calls the
\* model, which awaits load() once more when _loaded is still false.
LoadEnd(p, ok) ==
    /\ Loading(p)
    /\ loaded' = (loaded \/ ok)
    /\ call' = [call EXCEPT ![p] = IF call[p] = "loading" /\ ~loaded'
                                   THEN "reloading" ELSE "generating"]
    /\ UNCHANGED <<registry, spc, yielded, gen, out, locked, cs>>
    /\ UNCHANGED <<taskVars, callerVars>>

\* The call of the model ends, by a return or an exception.
GenerateEnd(p) ==
    /\ call[p] = "generating"
    /\ call' = [call EXCEPT ![p] = "idle"]
    /\ UNCHANGED <<registry, loaded, spc, yielded, gen, out, locked, cs>>
    /\ UNCHANGED <<taskVars, callerVars>>

\* ------------------------------------------- the store, statement by statement

\* The ids of the calls: those create_task issues and one it does not.
LockIds == 1..(MaxTasks + 1)

\* The Task Store calls a coroutine may make, each at the entry of its
\* `async with self.lock` block.
StoreRequests ==
    {[op |-> "create_task", at |-> "entered"]}
    \cup {[op |-> "update_task_status", at |-> "entered", id |-> id,
           status |-> u[1], result |-> u[2]] :
             id \in LockIds, u \in {<<"processing", None>>, <<"completed", Text("")>>}}
    \cup {[op |-> "get_task_status", at |-> "entered", id |-> id] : id \in LockIds}
    \cup {[op |-> "list_tasks", at |-> "entered"]}
    \cup {[op |-> "clean_old_tasks", at |-> "entered"]}

In(p, op, at) == cs[p].op = op /\ cs[p].at = at
Move(p, at) == cs' = [cs EXCEPT ![p].at = at]

lockFrame == <<issued, now, schedVars, euVars, hist, streamVars, held, locked, call>>

\* `async with self.lock` entered without waiting for the lock.
AcquireUnguarded(p, req) ==
    /\ cs[p] = Outside
    /\ call[p] = "idle"
    /\ locked' = TRUE
    /\ cs' = [cs EXCEPT ![p] = req]
    /\ UNCHANGED <<taskVars, streamVars, callerVars, call>>

\* `async with self.lock`: the coroutine enters the block when the lock is
\* free and waits while it is not.
Acquire(p, req) ==
    /\ cs[p] = Outside
    /\ call[p] = "idle"
    /\ ~locked
    /\ locked' = TRUE
    /\ cs' = [cs EXCEPT ![p] = req]
    /\ UNCHANGED <<taskVars, streamVars, callerVars, call>>

\* create_task: the assignment of the new record.
CreateWrite(p) ==
    /\ In(p, "create_task", "entered")
    /\ issued < MaxTasks
    /\ tasks' = ((issued + 1) :> NewTask(issued + 1, "chat_completion", now)) @@ tasks
    /\ issued' = issued + 1
    /\ ret' = [op |-> "create_task", id |-> issued + 1]
    /\ Move(p, "done")
    /\ UNCHANGED <<results, now, schedVars, euVars, hist, streamVars, held, locked, call>>

\* update_task_status: the membership test, KeyError or the assignment of
\* the status.
UpdateWriteStatus(p) ==
    /\ In(p, "update_task_status", "entered")
    /\ IF cs[p].id \notin DOMAIN tasks
       THEN /\ ret' = [op |-> "update_task_status", raised |-> TRUE]
            /\ Move(p, "done")
            /\ UNCHANGED tasks
       ELSE /\ tasks' = [tasks EXCEPT ![cs[p].id].status = cs[p].status]
            /\ ret' = [op |-> "update_task_status", raised |-> FALSE]
            /\ Move(p, IF cs[p].result # None THEN "status" ELSE "done")
    /\ UNCHANGED <<results, lockFrame>>

\* update_task_status: self.results[task_id] = result.
UpdateWriteResult(p) ==
    /\ In(p, "update_task_status", "status")
    /\ results' = (cs[p].id :> cs[p].result) @@ results
    /\ Move(p, "result")
    /\ UNCHANGED <<tasks, ret, lockFrame>>

\* update_task_status: self.tasks[task_id]["completed_at"] = time.time().
UpdateStamp(p) ==
    /\ In(p, "update_task_status", "result")
    /\ tasks' = [tasks EXCEPT ![cs[p].id] = ("completed_at" :> now) @@ tasks[cs[p].id]]
    /\ Move(p, "done")
    /\ UNCHANGED <<results, ret, lockFrame>>

\* get_task_status: the body of the block.
GetRead(p) ==
    /\ In(p, "get_task_status", "entered")
    /\ ret' = [op |-> "get_task_status", value |-> GetTaskStatus(tasks, results, cs[p].id)]
    /\ Move(p, "done")
    /\ UNCHANGED <<tasks, results, lockFrame>>

\* list_tasks: the body of the block.
ListRead(p) ==
    /\ In(p, "list_tasks", "entered")
    /\ ret' = [op |-> "list_tasks", value |-> ListTasks(tasks, "", DefaultLimit, 0)]
    /\ Move(p, "done")
    /\ UNCHANGED <<tasks, results, lockFrame>>

\* clean_old_tasks: the loop that collects to_remove.
CleanCollect(p) ==
    /\ In(p, "clean_old_tasks", "entered")
    /\ LET gone == ToRemove(tasks, 0, now)
       IN cs' = [cs EXCEPT ![p] = [op |-> "clean_old_tasks",
                                   at |-> IF gone = {} THEN "done" ELSE "collected",
                                   to_remove |-> gone]]
    /\ ret' = [op |-> "clean_old_tasks", count |-> 0]
    /\ UNCHANGED <<tasks, results, lockFrame>>

\* The next id of to_remove, which is in the order of the dict.
NextToRemove(p) == CHOOSE i \in cs[p].to_remove : \A j \in cs[p].to_remove : i <= j

\* clean_old_tasks: self.tasks.pop(task_id, None).
CleanPopTask(p) ==
    /\ In(p, "clean_old_tasks", "collected")
    /\ tasks' = Without(tasks, {NextToRemove(p)})
    /\ Move(p, "popped")
    /\ UNCHANGED <<results, ret, lockFrame>>

\* clean_old_tasks: self.results.pop(task_id, None); removed_count += 1.
CleanPopResult(p) ==
    /\ In(p, "clean_old_tasks", "popped")
    /\ results' = Without(results, {NextToRemove(p)})
    /\ LET rest == cs[p].to_remove \ {NextToRemove(p)}
       IN cs' = [cs EXCEPT ![p].to_remove = rest,
                           ![p].at = IF rest = {} THEN "done" ELSE "collected"]
    /\ ret' = [ret EXCEPT !.count = @ + 1]
    /\ UNCHANGED <<tasks, lockFrame>>

\* The end of the `async with` block, by its last statement or by the
\* KeyError: the lock is released.
Release(p) ==
    /\ cs[p] # Outside
    /\ cs[p].at = "done"
    /\ locked' = FALSE
    /\ cs' = [cs EXCEPT ![p] = Outside]
    /\ UNCHANGED <<taskVars, streamVars, callerVars, call>>

\* clean_old_tasks(max_age_hours): pops the collected ids from tasks and
\* results and returns their number.
CallCleanOldTasks(max_age_hours) ==
    /\ LET gone == ToRemove(tasks, max_age_hours, now)
       IN /\ tasks' = Without(tasks, gone)
          /\ results' = Without(results, gone)
          /\ ret' = [op |-> "clean_old_tasks", count |-> Cardinality(gone)]
    /\ held' = Seen(held, tasks')
    /\ UNCHANGED <<issued, now, restVars>>

\* ------------------------------------------------------------ specification

EmptyMap == [i \in {} |-> NoRecord]

TaskInit ==
    /\ tasks = EmptyMap
    /\ results = EmptyMap
    /\ issued = 0
    /\ now = 0
    /\ running = FALSE
    /\ wpc = "dead"
    /\ scan = <<>>
    /\ idx = 0
    /\ cleanups = {}
    /\ cleanup_task = 0
    /\ stoppc = "idle"
    /\ inflight = {}
    /\ eu = [i \in TaskIds |-> "none"]
    /\ euOut = [i \in TaskIds |-> NoOutcome]
    /\ started = [i \in TaskIds |-> 0]
    /\ hist = [i \in TaskIds |-> <<>>]

StreamIdle ==
    /\ registry = "absent"
    /\ loaded = FALSE
    /\ spc = "idle"
    /\ yielded = <<>>
    /\ gen = NoOutcome
    /\ out = <<>>

CallerIdle ==
    /\ ret = NoOutcome
    /\ held = NoRecord
    /\ locked = FALSE
    /\ cs = [p \in Callers |-> Outside]
    /\ call = [p \in Callers |-> "idle"]

Init == TaskInit /\ StreamIdle /\ CallerIdle

Next ==
    \/ \E type \in TaskTypes : CreateTask(type)
    \/ Tick
    \/ Start
    \/ StopBegin
    \/ StopCancelCleanup
    \/ StopReturn
    \/ WorkerScan
    \/ WorkerClaim
    \/ WorkerFailUnknown
    \/ WorkerWake
    \/ \E c \in 1..MaxLoops : CleanupWake(c)
    \/ \E id \in TaskIds, r \in BackendReturns : BackendReturn(id, r)
    \/ \E id \in TaskIds, m \in BackendRaises : BackendRaise(id, m)
    \/ \E id \in TaskIds : UnitComplete(id)
    \/ \E id \in TaskIds : UnitFail(id)

\* The task system: store, scheduler, execution units, callers.
Spec == Init /\ [][Next]_vars

\* A streaming request, for each state the model registry can be in when it
\* arrives: no model under the name, an MLXModel (loaded or not), or a
\* BaseLLMModel without chat_stream (MockLLMModel, loaded or not).
StreamInit ==
    /\ TaskInit
    /\ registry \in {"absent", "mlx", "mock"}
    /\ loaded \in BOOLEAN
    /\ registry = "absent" => ~loaded
    /\ spc = "idle"
    /\ yielded = <<>>
    /\ gen = NoOutcome
    /\ out = <<>>
    /\ CallerIdle

StreamNext ==
    \/ StreamBegin
    \/ \E ok \in BOOLEAN : StreamAcquire(ok)
    \/ StreamCheck
    \/ \E ok \in BOOLEAN : ChatStreamOpen(ok)
    \/ \E ok \in BOOLEAN : ChatStreamPrepare(ok)
    \/ \E t \in Increments : GeneratorYield(t)
    \/ \E m \in GeneratorRaises : GeneratorRaise(m)
    \/ GeneratorExhausted
    \/ StreamDone

StreamSpec == StreamInit /\ [][StreamNext]_vars

\* The Task Store under direct calls, from the empty store.
StoreNext ==
    \/ CallCreateTask("chat_completion")
    \/ Tick
    \/ \E id \in StoreIds, status \in {"completed", "failed"},
          result \in BackendReturns :
           CallUpdateTaskStatus(id, status, result)
    \/ \E id \in StoreIds : CallGetTaskStatus(id)
    \/ \E h \in MaxAgeHours : CallCleanOldTasks(h)

StoreSpec == Init /\ [][StoreNext]_vars

\* The status filters a caller passes: none (""), statuses, and a text that
\* is no status.
StatusFilters == {"", "pending", "completed", "cancelled"}

\* Limits and skips up to one more than the store can hold.
PageSizes == 0..(MaxStoreTasks + 1)

\* Listing the store while tasks are created and their status changes.
ListNext ==
    \/ CallCreateTask("chat_completion")
    \/ Tick
    \/ \E id \in StoreIds, status \in {"completed", "failed"} :
           CallUpdateTaskStatus(id, status, None)
    \/ \E s \in StatusFilters, limit \in PageSizes, skip \in PageSizes :
           CallListTasks(s, limit, skip)

ListSpec == Init /\ [][ListNext]_vars

\* Status requests on a store whose tasks are completed with a text, with
\* the coroutine the MLX backend returns, or failed.
StatusNext ==
    \/ CallCreateTask("text_generation")
    \/ Tick
    \/ \E id \in StoreIds, result \in {Text(""), Coroutine} :
           CallUpdateTaskStatus(id, "completed", result)
    \/ \E id \in StoreIds :
           CallUpdateTaskStatus(id, "failed", ErrorPayload("boom"))
    \/ \E id \in StoreIds, ok \in BOOLEAN : StatusRequest(id, ok)

StatusSpec == Init /\ [][StatusNext]_vars

\* Coroutines resolving the same model name concurrently.
LoadNext ==
    \/ \E p \in Callers : InterfaceResolve(p)
    \/ \E p \in Callers, ok \in BOOLEAN : LoadEnd(p, ok)
    \/ \E p \in Callers : GenerateEnd(p)

LoadSpec == Init /\ [][LoadNext]_vars

\* Coroutines calling the Task Store and the LLM interface concurrently,
\* the store's blocks taken statement by statement.
LockNext ==
    \/ Tick
    \/ \E p \in Callers, req \in StoreRequests : Acquire(p, req)
    \/ \E p \in Callers : CreateWrite(p)
    \/ \E p \in Callers : UpdateWriteStatus(p)
    \/ \E p \in Callers : UpdateWriteResult(p)
    \/ \E p \in Callers : UpdateStamp(p)
    \/ \E p \in Callers : GetRead(p)
    \/ \E p \in Callers : ListRead(p)
    \/ \E p \in Callers : CleanCollect(p)
    \/ \E p \in Callers : CleanPopTask(p)
    \/ \E p \in Callers : CleanPopResult(p)
    \/ \E p \in Callers : Release(p)
    \/ \E p \in Callers : InterfaceResolve(p)
    \/ \E p \in Callers : GenerateEnd(p)

\* The model has been loaded through POST /models/load before the first
\* task is submitted.
LockInit ==
    /\ TaskInit
    /\ CallerIdle
    /\ registry = "mlx"
    /\ loaded = TRUE
    /\ spc = "idle"
    /\ yielded = <<>>
    /\ gen = NoOutcome
    /\ out = <<>>

LockSpec == LockInit /\ [][LockNext]_vars

\* A caller that keeps a record of a list while tasks are created and
\* updated, and that writes to the record it keeps.
HoldNext ==
    \/ CallCreateTask("chat_completion")
    \/ Tick
    \/ \E id \in StoreIds, status \in {"processing", "completed"},
          result \in BackendReturns :
           CallUpdateTaskStatus(id, status, result)
    \/ \E s \in {"", "pending"}, k \in 1..MaxStoreTasks : ListAndHold(s, k)
    \/ CallerAssigns("cancelled")

HoldSpec == Init /\ [][HoldNext]_vars

\* The dispatch loop of a started scheduler, the execution units and the
\* backend, with tasks of a registered and of an unregistered type submitted
\* at any moment.
DispatchNext ==
    \/ \E type \in {"text_generation", "image_generation"} : CallCreateTask(type)
    \/ Tick
    \/ Start
    \/ \E c \in 1..MaxLoops : CleanupWake(c)
    \/ WorkerScan
    \/ WorkerClaim
    \/ WorkerFailUnknown
    \/ WorkerWake
    \/ \E id \in TaskIds, r \in BackendReturns : BackendReturn(id, r)
    \/ \E id \in TaskIds, m \in BackendRaises : BackendRaise(id, m)
    \/ \E id \in TaskIds : UnitComplete(id)
    \/ \E id \in TaskIds : UnitFail(id)

DispatchSpec == Init /\ [][DispatchNext]_vars

\* The status endpoint suspended on a coroutine result while the store is
\* updated and cleaned.
SnapshotNext ==
    \/ CreateTask("chat_completion")
    \/ Tick
    \/ \E id \in TaskIds, status \in Statuses, result \in {None, Coroutine} :
           CallUpdateTaskStatus(id, status, result)
    \/ \E id \in TaskIds : EndpointAwait(id)
    \/ \E ok \in BOOLEAN : EndpointAfterAwait(ok)
    \/ CallCleanOldTasks(0)

SnapshotSpec == Init /\ [][SnapshotNext]_vars

\* The scheduler that is started and never stopped.
LiveNext ==
    \/ \E type \in TaskTypes : CreateTask(type)
    \/ Tick
    \/ Start
    \/ WorkerScan
    \/ WorkerClaim
    \/ WorkerFailUnknown
    \/ WorkerWake
    \/ \E c \in 1..MaxLoops : CleanupWake(c)
    \/ \E id \in TaskIds, r \in BackendReturns : BackendReturn(id, r)
    \/ \E id \in TaskIds, m \in BackendRaises : BackendRaise(id, m)
    \/ \E id \in TaskIds : UnitComplete(id)
    \/ \E id \in TaskIds : UnitFail(id)

\* The backend call of a unit ends, one way or the other.
BackendEnds(id) ==
    \/ \E r \in BackendReturns : BackendReturn(id, r)
    \/ \E m \in BackendRaises : BackendRaise(id, m)

\* What the event loop guarantees a coroutine that is ready to run: the
\* application's startup calls start(), the dispatch loop's sleeps end and
\* its statements run, every backend call ends, and a unit whose call has
\* ended runs on.  Nothing is assumed of callers, of the clock or of the
\* reclamation loop.
LiveFairness ==
    /\ WF_vars(Start)
    /\ WF_vars(WorkerScan \/ WorkerClaim \/ WorkerFailUnknown \/ WorkerWake)
    /\ \A id \in TaskIds : WF_vars(BackendEnds(id))
    /\ \A id \in TaskIds : WF_vars(UnitComplete(id) \/ UnitFail(id))

LiveSpec == Init /\ [][LiveNext]_vars /\ LiveFairness

\* A burst of submissions: MaxBurst create_task calls at time 0, then
\* start().  The dispatch loop has not run yet.
BurstInit ==
    /\ tasks = [id \in 1..MaxBurst |-> NewTask(id, "text_generation", 0)]
    /\ results = EmptyMap
    /\ issued = MaxBurst
    /\ now = 0
    /\ running = TRUE
    /\ wpc = "top"
    /\ scan = <<>>
    /\ idx = 0
    /\ cleanups = {1}
    /\ cleanup_task = 1
    /\ stoppc = "idle"
    /\ inflight = {}
    /\ eu = [i \in 1..MaxBurst |-> "none"]
    /\ euOut = [i \in 1..MaxBurst |-> NoOutcome]
    /\ started = [i \in 1..MaxBurst |-> 0]
    /\ hist = [i \in 1..MaxBurst |-> <<"pending">>]
    /\ StreamIdle
    /\ CallerIdle

\* The dispatch loop working through the burst.
BurstNext ==
    \/ Tick
    \/ WorkerScan
    \/ WorkerClaim
    \/ WorkerWake

BurstSpec == BurstInit /\ [][BurstNext]_vars

\* A streaming request running while callers create and update tasks.
BridgeNext ==
    \/ StreamBegin
    \/ \E ok \in BOOLEAN : StreamAcquire(ok)
    \/ StreamCheck
    \/ \E ok \in BOOLEAN : ChatStreamOpen(ok)
    \/ \E ok \in BOOLEAN : ChatStreamPrepare(ok)
    \/ \E t \in Increments : GeneratorYield(t)
    \/ \E m \in GeneratorRaises : GeneratorRaise(m)
    \/ GeneratorExhausted
    \/ StreamDone
    \/ CallCreateTask("chat_completion")
    \/ \E id \in StoreIds, status \in {"completed", "failed"} :
           CallUpdateTaskStatus(id, status, None)

BridgeSpec == StreamInit /\ [][BridgeNext]_vars

\* ------------------------------------------------------------------ claims

Terminal == {"completed", "failed"}

\* A type that is neither text_generation nor chat_completion.
Unregistered(type) == type \notin {"text_generation", "chat_completion"}

\* self.results.get(id): the stored result, None when nothing is stored.
StoredResult(id) == IF id \in DOMAIN results THEN results[id] ELSE None

StatusPaths ==
    {<<>>, <<"pending">>, <<"pending", "processing">>,
     <<"pending", "processing", "completed">>,
     <<"pending", "processing", "failed">>}

\* C1: the statuses the store holds for a task over time form a prefix of
\* pending, processing, (completed | failed), and the record's status is the
\* last of them: no regression, no terminal status without processing, no
\* second terminal transition.
C1_StatusSequence ==
    \A id \in TaskIds :
        /\ hist[id] \in StatusPaths
        /\ id \in DOMAIN tasks =>
               /\ hist[id] # <<>>
               /\ tasks[id].status = hist[id][Len(hist[id])]

\* A task went through all three statuses by way of its execution unit.
C1_Witness ==
    \E id \in DOMAIN tasks : Len(hist[id]) = 3 /\ eu[id] = "done"

\* C2: at most one execution unit is ever created for a task id, over all
\* dispatch cycles and over stop/start of the scheduler, and a unit exists
\* only for a task that was moved to processing.
C2_DispatchedOnce ==
    \A id \in TaskIds :
        /\ started[id] <= 1
        /\ started[id] = 1 => Len(hist[id]) >= 2 /\ hist[id][2] = "processing"

\* The scheduler was started a second time (loop handle 2 exists only then),
\* its dispatch loop has finished a cycle that scanned nothing, and a task
\* dispatched once is still processing.
C2_Witness ==
    \E id \in DOMAIN tasks :
        /\ started[id] = 1
        /\ tasks[id].status = "processing"
        /\ cleanup_task = 2
        /\ wpc = "sleep"
        /\ scan = <<>>

\* C4: no execution unit ends with an exception leaving the coroutine.
C4_NoUnhandledException ==
    \A id \in TaskIds : eu[id] # "crashed"

\* C5: while a task is pending or processing, get returns a record without
\* a result and the store holds no result for it.
C5_NoResultBeforeTerminal ==
    \A id \in DOMAIN tasks :
        tasks[id].status \in {"pending", "processing"} =>
            /\ "result" \notin DOMAIN GetTaskStatus(tasks, results, id)
            /\ id \notin DOMAIN results

\* A task is processing while its unit's backend call has ended.
C5_Witness ==
    \E id \in DOMAIN tasks :
        tasks[id].status = "processing" /\ eu[id] \in {"returned", "raised"}

\* C6: for a task in a terminal status the record get returns carries the
\* result; for a failed task it carries result.error.
C6_TerminalCarriesResult ==
    \A id \in DOMAIN tasks :
        LET rec == GetTaskStatus(tasks, results, id)
        IN /\ tasks[id].status \in Terminal => "result" \in DOMAIN rec
           /\ tasks[id].status = "failed" =>
                  "result" \in DOMAIN rec /\ "error" \in DOMAIN rec.result

\* C7: completed_at is set exactly when the status is terminal, and is not
\* before created_at, whatever the backend returned.
C7_CompletedAtIffTerminal ==
    \A id \in DOMAIN tasks :
        /\ "completed_at" \in DOMAIN tasks[id] <=> tasks[id].status \in Terminal
        /\ "completed_at" \in DOMAIN tasks[id] =>
               tasks[id].completed_at >= tasks[id].created_at

C9_UnknownTypeNotDispatched ==
    /\ \A id \in DOMAIN tasks :
           Unregistered(tasks[id].type) => eu[id] = "none" /\ started[id] = 0
    /\ \A k \in 1..Len(scan) :
           Unregistered(scan[k].type) =>
               /\ eu[scan[k].id] = "none"
               /\ (wpc = "sleep" /\ scan[k].id \in DOMAIN tasks) =>
                      tasks[scan[k].id].status = "failed"

\* A cycle that scanned a task of an unregistered type is at its sleep.
C9_Witness ==
    /\ wpc = "sleep"
    /\ \E k \in 1..Len(scan) :
           /\ Unregistered(scan[k].type)
           /\ scan[k].id \in DOMAIN tasks
           /\ tasks[scan[k].id].status = "failed"

FailedForType(id) ==
    /\ id \in DOMAIN tasks
    /\ Unregistered(tasks[id].type)
    /\ tasks[id].status = "failed"

IsSuccess(e) ==
    /\ e.data = "json"
    /\ "finish_reason" \in DOMAIN e.chunk
    /\ e.chunk.finish_reason = "stop"

IsError(e) == e.data = "json" /\ "error" \in DOMAIN e.chunk

IsContent(e) ==
    /\ e.data = "json"
    /\ "delta" \in DOMAIN e.chunk
    /\ "content" \in DOMAIN e.chunk.delta

Count(P(_)) == Cardinality({k \in DOMAIN out : P(out[k])})

\* C3: a stream never holds more than one terminal signal (success frame or
\* error frame), and a finished stream holds exactly one.
C3_OneTerminalSignal ==
    /\ Count(IsSuccess) + Count(IsError) <= 1
    /\ spc \in {"ended", "closed"} => Count(IsSuccess) + Count(IsError) = 1

\* A stream that failed after a content frame is closed.
C3_Witness ==
    /\ spc = "closed"
    /\ Count(IsError) = 1
    /\ Count(IsContent) >= 1

IsRole(e) ==
    /\ e.data = "json"
    /\ "delta" \in DOMAIN e.chunk
    /\ "role" \in DOMAIN e.chunk.delta

\* The backend generator raised after increments that were all non-empty.
RaisedAfterNonEmpty ==
    /\ "raised" \in DOMAIN gen
    /\ \A i \in DOMAIN yielded : yielded[i] # ""

\* C11: when the backend generator yields k non-empty increments and then
\* raises, the closed stream is exactly the role frame, the k content frames
\* in the order of the increments, one error frame carrying the message of
\* the exception, and the sentinel; it holds no success frame.
C11_ErrorPathFrames ==
    (spc = "closed" /\ RaisedAfterNonEmpty) =>
        LET k == Len(yielded)
        IN /\ Len(out) = k + 3
           /\ IsRole(out[1])
           /\ \A i \in 1..k :
                  /\ IsContent(out[i + 1])
                  /\ out[i + 1].chunk.delta.content = yielded[i]
           /\ IsError(out[k + 2])
           /\ out[k + 2].chunk.error.message = gen.raised
           /\ out[k + 3] = DoneEvent
           /\ Count(IsSuccess) = 0

\* A stream is closed after two different non-empty increments and a raise.
C11_Witness ==
    /\ spc = "closed"
    /\ RaisedAfterNonEmpty
    /\ Len(yielded) >= 2
    /\ yielded[1] # yielded[2]

\* The non-empty increments the generator produced, in order.
NonEmptyIncrements == SelectSeq(yielded, LAMBDA t : t # "")

\* C12: when the backend generator ends without raising, the closed stream
\* is exactly the role frame, one content frame per non-empty increment in
\* the order produced and carrying only that increment, one success frame
\* with finish reason "stop" and an empty delta, and the sentinel; an empty
\* increment adds no frame.
C12_SuccessPathFrames ==
    (spc = "closed" /\ gen = [exhausted |-> TRUE]) =>
        LET k == Len(NonEmptyIncrements)
        IN /\ Len(out) = k + 3
           /\ IsRole(out[1])
           /\ \A i \in 1..k :
                  /\ IsContent(out[i + 1])
                  /\ out[i + 1].chunk.delta.content = NonEmptyIncrements[i]
           /\ IsSuccess(out[k + 2])
           /\ DOMAIN out[k + 2].chunk.delta = {}
           /\ out[k + 3] = DoneEvent
           /\ Count(IsError) = 0

\* A stream is closed after a non-empty, an empty and another non-empty
\* increment and the end of the generator.
C12_Witness ==
    /\ spc = "closed"
    /\ gen = [exhausted |-> TRUE]
    /\ Len(yielded) >= 3
    /\ yielded[1] # ""
    /\ yielded[2] = ""
    /\ yielded[3] \notin {"", yielded[1]}

IsDone(e) == e = DoneEvent

\* C13: the sentinel [DONE] occurs at most once in a stream and never before
\* the stream is closed; a stream that is not closed can take a step; a
\* closed stream ends with the sentinel, which is its only one and directly
\* follows the success frame or the error frame.
C13_SentinelOnceLast ==
    /\ Count(IsDone) <= 1
    /\ spc # "closed" => Count(IsDone) = 0 /\ ENABLED StreamNext
    /\ spc = "closed" =>
           /\ Count(IsDone) = 1
           /\ Len(out) >= 2
           /\ out[Len(out)] = DoneEvent
           /\ IsSuccess(out[Len(out) - 1]) \/ IsError(out[Len(out) - 1])

\* A stream that failed before any content frame is closed: role frame,
\* error frame, sentinel.
C13_Witness ==
    /\ spc = "closed"
    /\ Len(out) = 3
    /\ IsRole(out[1])
    /\ IsError(out[2])

\* C14: when the model registered under the name has no chat_stream, the
\* closed stream is exactly one error frame, whose chunk is
\* {error: {message, type}} with the message saying that the model does not
\* support streaming, followed by the sentinel: no role, content or success
\* frame.
C14_StreamingUnsupported ==
    (spc = "closed" /\ registry = "mock") =>
        /\ Len(out) = 2
        /\ IsError(out[1])
        /\ DOMAIN out[1].chunk = {"error"}
        /\ DOMAIN out[1].chunk.error = {"message", "type"}
        /\ out[1].chunk.error.message = "Model does not support streaming"
        /\ out[2] = DoneEvent
        /\ Count(IsRole) + Count(IsContent) + Count(IsSuccess) = 0

\* A stream on a registered but not yet loaded model without chat_stream is
\* closed.
C14_Witness ==
    /\ spc = "closed"
    /\ registry = "mock"
    /\ loaded
    /\ Len(out) = 2

\* ------------------------------------------------------ Task Store claims

\* The step ends with a caller holding the outcome of a call of op.
Returns(op) == "op" \in DOMAIN ret' /\ ret'.op = op

\* The records of a store that are older than max_age_hours at time t.
OlderThan(ts, max_age_hours, t) ==
    {i \in DOMAIN ts : (t - ts[i].created_at) * TickSeconds > max_age_hours * 3600}

\* A step that is a call clean_old_tasks(h) does what the claim says.
EvictsExactlyOlder(h) ==
    CallCleanOldTasks(h) =>
        LET old == OlderThan(tasks, h, now)
        IN /\ DOMAIN tasks' = DOMAIN tasks \ old
           /\ \A i \in DOMAIN tasks' : tasks'[i] = tasks[i]
           /\ DOMAIN results' = DOMAIN results \ old
           /\ \A i \in DOMAIN results' : results'[i] = results[i]
           /\ ret'.count = Cardinality(old)
           /\ \A i \in old : GetTaskStatus(tasks', results', i) = NoRecord

\* C15: for every max_age_hours >= 0, a call clean_old_tasks(max_age_hours)
\* removes exactly the records older than max_age_hours, whatever their
\* status, and their stored results, leaves every other record and result
\* as it was, returns the number of records removed, and a get on a removed
\* id then finds no record.
C15_EvictsExactlyOlder ==
    [][Returns("clean_old_tasks") =>
          \A h \in MaxAgeHours : EvictsExactlyOlder(h)]_vars

\* The same for the arguments Python does not read as false: it holds.
C15_PositiveAges ==
    [][Returns("clean_old_tasks") =>
          \A h \in MaxAgeHours \ {0} : EvictsExactlyOlder(h)]_vars

\* C17: a call of create_task returns an id that no earlier call returned
\* and that is not in the store, inserts under it a record with status
\* "pending", without completed_at and without a stored result, and leaves
\* every existing record and result as it was.
C17_CreateFreshPending ==
    [][\A type \in TaskTypes :
          (Returns("create_task") /\ CallCreateTask(type)) =>
              LET id == ret'.id
              IN /\ id \notin 1..issued
                 /\ id \notin DOMAIN tasks
                 /\ DOMAIN tasks' = DOMAIN tasks \cup {id}
                 /\ \A i \in DOMAIN tasks : tasks'[i] = tasks[i]
                 /\ tasks'[id].status = "pending"
                 /\ tasks'[id].type = type
                 /\ tasks'[id].created_at = now
                 /\ "completed_at" \notin DOMAIN tasks'[id]
                 /\ id \notin DOMAIN results'
                 /\ results' = results]_vars

\* A second task has been created after the first one was evicted.
C17_Witness ==
    /\ ret = [op |-> "create_task", id |-> 2]
    /\ DOMAIN tasks = {2}

\* C18: GET /tasks/{id} for an id that is not in the store, because
\* create_task never returned it or because its record was evicted, answers
\* 404, and it leaves tasks and results as they were.
C18_GetNotFound ==
    [][\A id \in StoreIds \ DOMAIN tasks :
          (Returns("get_task_status") /\ CallGetTaskStatus(id)) =>
              /\ ret'.status_code = 404
              /\ tasks' = tasks
              /\ results' = results]_vars

\* A get has answered 404 while the store holds no record of an id that
\* was issued (it was evicted) and a record of another one.
C18_Witness ==
    /\ ret = [op |-> "get_task_status", status_code |-> 404]
    /\ issued = 2
    /\ DOMAIN tasks = {2}

\* C19: update_task_status for an id that is not in the store raises
\* KeyError and leaves tasks and results as they were: no record and no
\* result appears for the id.
C19_UpdateNotFound ==
    [][\A id \in StoreIds \ DOMAIN tasks, status \in Statuses,
         result \in BackendReturns :
          (Returns("update_task_status")
             /\ CallUpdateTaskStatus(id, status, result)) =>
              /\ ret'.raised
              /\ tasks' = tasks
              /\ results' = results
              /\ id \notin DOMAIN tasks'
              /\ id \notin DOMAIN results']_vars

\* An update has raised while the store holds a record with a stored
\* result.
C19_Witness ==
    /\ ret = [op |-> "update_task_status", raised |-> TRUE]
    /\ DOMAIN results # {}

\* C20: the record get_task_status returned is a snapshot: no step changes
\* both the store and the record a caller holds.  A step that updates or
\* evicts the task leaves the held record's status, completed_at and result
\* as they were, and a step in which the caller assigns to the held
\* record's result or status leaves tasks and results as they were.
C20_GetSnapshot ==
    [][(tasks' # tasks \/ results' # results) => held' = held]_vars

\* The caller assigned "failed" and an error payload to the record it
\* holds, and the task was updated to "processing" after the get: the held
\* record and the store's record differ in status.
C20_Witness ==
    /\ held # NoRecord
    /\ held.rec.status = "failed"
    /\ held.rec.result = ErrorPayload("Error in task execution")
    /\ held.obj.id \in DOMAIN tasks
    /\ tasks[held.obj.id].status = "processing"

\* The task was evicted after the get: the caller still holds its record.
C20_WitnessEvicted ==
    /\ held # NoRecord
    /\ held.obj.id \notin DOMAIN tasks
    /\ held.rec.status = "completed"

\* The last call was list_tasks with a status filter.
ListedWithFilter ==
    /\ "op" \in DOMAIN ret
    /\ ret.op = "list_tasks"
    /\ ret.status # ""

\* The ids of the records with status s.
Matching(s) == {i \in DOMAIN tasks : tasks[i].status = s}

\* The number of records with status s that precede record i when the
\* records are ordered newest first, records of the same age in the order
\* they were created.
Rank(s, i) ==
    Cardinality({j \in Matching(s) :
                    \/ tasks[j].created_at > tasks[i].created_at
                    \/ tasks[j].created_at = tasks[i].created_at /\ j < i})

\* C16: list_tasks(status=s, limit=L, skip=S) with a status s, L >= 0 and
\* S >= 0 returns at most L records, all of status s, ordered by created_at
\* descending, and they are the records at the positions S .. S+L-1
\* (counted from 0) of all records of status s ordered newest first: filter,
\* then order, then paginate.
C16_ListFilterSortPage ==
    ListedWithFilter =>
        LET v == ret.value
            total == Cardinality(Matching(ret.status))
            rest == IF total > ret.skip THEN total - ret.skip ELSE 0
        IN /\ Len(v) <= ret.limit
           /\ Len(v) = IF rest < ret.limit THEN rest ELSE ret.limit
           /\ \A k \in DOMAIN v :
                  /\ v[k].status = ret.status
                  /\ v[k].id \in Matching(ret.status)
                  /\ v[k] = tasks[v[k].id]
                  /\ Rank(ret.status, v[k].id) = ret.skip + k - 1
           /\ \A k \in 1..(Len(v) - 1) : v[k].created_at >= v[k + 1].created_at

\* A list call for one completed record returned it although a newer
\* record, of another status, is in the store.
C16_Witness ==
    /\ ListedWithFilter
    /\ ret.status = "completed"
    /\ ret.skip = 0
    /\ ret.limit = 1
    /\ Len(ret.value) = 1
    /\ \E i \in DOMAIN tasks :
           /\ tasks[i].status = "pending"
           /\ tasks[i].created_at > ret.value[1].created_at

\* A list call skipped the newer of two completed records and returned the
\* older one.
C16_WitnessSkip ==
    /\ ListedWithFilter
    /\ ret.status = "completed"
    /\ ret.skip = 1
    /\ Len(ret.value) = 1
    /\ \E i \in DOMAIN tasks :
           /\ tasks[i].status = "completed"
           /\ tasks[i].created_at > ret.value[1].created_at

\* ------------------------------------------------------- scheduler claims

\* A step in which the backend call of task id raises, or in which the
\* execution unit of id handles that exception.
BackendFailureStep(id) ==
    /\ eu[id] \in {"calling", "raised"}
    /\ eu'[id] # eu[id]
    /\ "exc" \in DOMAIN euOut'[id]
    /\ euOut'[id].exc \in BackendRaises

\* Task j, its record, its result and its execution unit are the same after
\* the step.
Untouched(j) ==
    /\ (j \in DOMAIN tasks) = (j \in DOMAIN tasks')
    /\ j \in DOMAIN tasks => tasks'[j] = tasks[j]
    /\ (j \in DOMAIN results) = (j \in DOMAIN results')
    /\ j \in DOMAIN results => results'[j] = results[j]
    /\ eu'[j] = eu[j]
    /\ euOut'[j] = euOut[j]

\* C21: a step in which the backend call of a task raises, or in which its
\* execution unit handles the exception, changes no other task's record,
\* result or execution unit, and leaves the dispatch loop and the
\* reclamation loop where they were: running, alive, at the same point of
\* their cycle, with the same scan.
C21_BackendErrorIsolated ==
    [][\A id \in TaskIds :
          BackendFailureStep(id) =>
              /\ \A j \in TaskIds \ {id} : Untouched(j)
              /\ UNCHANGED <<running, wpc, scan, idx, cleanups, cleanup_task>>]_vars

\* The first task failed with the backend's error, and the second one,
\* created after that, was claimed and completed with the scheduler still
\* running.
C21_Witness ==
    /\ 1 \in DOMAIN tasks /\ 2 \in DOMAIN tasks
    /\ tasks[1].status = "failed"
    /\ 1 \in DOMAIN results /\ results[1] = ErrorPayload("boom")
    /\ tasks[2].status = "completed"
    /\ tasks[2].created_at > tasks[1].completed_at
    /\ running
    /\ wpc # "dead"
    /\ cleanups # {}

\* A backend call is in progress.
SomeCallInProgress == \E j \in TaskIds : eu[j] = "calling"

\* C22: the dispatch loop never waits for an execution unit: while a
\* backend call is in progress, and whether or not it ever returns, the
\* loop's next statement can run at every point of its cycle (scan, claim,
\* failing a task of unknown type, waking from either sleep).
C22_LoopNeverWaits ==
    (running /\ SomeCallInProgress) =>
        /\ wpc = "top" => ENABLED WorkerScan
        /\ wpc = "claim" => ENABLED WorkerClaim
        /\ wpc = "fail" => ENABLED WorkerFailUnknown
        /\ wpc \in {"sleep", "backoff"} => ENABLED WorkerWake

\* Two tasks are in processing at the same time, both inside their backend
\* call.
C22_Witness ==
    /\ 1 \in DOMAIN tasks /\ 2 \in DOMAIN tasks
    /\ tasks[1].status = "processing" /\ tasks[2].status = "processing"
    /\ eu[1] = "calling" /\ eu[2] = "calling"

\* The second task, created after the first was claimed, is completed while
\* the backend call of the first has not returned.
C22_WitnessOvertaken ==
    /\ 1 \in DOMAIN tasks /\ 2 \in DOMAIN tasks
    /\ eu[1] = "calling"
    /\ tasks[2].status = "completed"
    /\ tasks[2].created_at > tasks[1].created_at

\* The last status the store has held for a task.
LastStatus(id) == IF hist[id] = <<>> THEN "none" ELSE hist[id][Len(hist[id])]

\* C23 as stated: a task that was processing, its execution unit in flight,
\* when stop() was called and still when it returned, has reached completed
\* or failed once its unit has ended (the scheduler has not been started
\* again).
C23_InFlightReachTerminal ==
    stoppc = "idle" =>
        \A id \in inflight : ~UnitInFlight(id) => LastStatus(id) \in Terminal

\* C23, amended: stop() neither cancels nor waits for the execution units in
\* flight.  Each of them is still where its backend call left it, its next
\* step can run whatever the scheduler's state is, stop() can proceed while
\* they run, and a unit that has ended has written completed or failed,
\* unless the record was evicted before it ended: then the unit ended on the
\* store's NotFound error and wrote nothing.
C23_InFlightEndUnlessEvicted ==
    /\ \A id \in inflight :
          /\ eu[id] \in {"calling", "returned", "raised", "done", "crashed"}
          /\ eu[id] = "calling" =>
                /\ \A r \in BackendReturns : ENABLED BackendReturn(id, r)
                /\ \A m \in BackendRaises : ENABLED BackendRaise(id, m)
          /\ eu[id] = "returned" => ENABLED UnitComplete(id)
          /\ eu[id] = "raised" => ENABLED UnitFail(id)
          /\ eu[id] = "done" => LastStatus(id) \in Terminal
          /\ eu[id] = "crashed" => id \notin DOMAIN tasks /\ LastStatus(id) = "processing"
    /\ stoppc = "await_worker" => ENABLED StopCancelCleanup
    /\ stoppc = "await_cleanup" => ENABLED StopReturn

\* stop() has returned while the unit of task 1 was in flight, and the unit
\* has since completed the task; the scheduler has not been started again.
C23_Witness ==
    /\ ~running /\ stoppc = "idle" /\ cleanups = {}
    /\ 1 \in inflight
    /\ eu[1] = "done"
    /\ 1 \in DOMAIN tasks /\ tasks[1].status = "completed"

\* stop() has returned while the unit of task 1 was in flight, the record
\* was evicted during the backend call, and the unit ended without writing.
C23_WitnessEvicted ==
    /\ stoppc = "idle"
    /\ 1 \in inflight
    /\ eu[1] = "crashed"
    /\ 1 \notin DOMAIN tasks

\* C24: under LiveSpec (the scheduler is started and never stopped, every
\* backend call ends, every ready coroutine runs), a task in the store
\* eventually leaves pending, and eventually is completed, failed or
\* evicted.
C24_EveryTaskEnds ==
    \A id \in TaskIds :
        /\ (id \in DOMAIN tasks /\ tasks[id].status = "pending")
              ~> (id \notin DOMAIN tasks \/ tasks[id].status # "pending")
        /\ (id \in DOMAIN tasks)
              ~> (id \notin DOMAIN tasks \/ tasks[id].status \in Terminal)

\* A task has been claimed and completed by its unit with the scheduler
\* running and never stopped.
C24_Witness ==
    /\ 1 \in DOMAIN tasks
    /\ tasks[1].status = "completed"
    /\ hist[1] = <<"pending", "processing", "completed">>
    /\ running
    /\ stoppc = "idle" /\ inflight = {}

\* A task left pending by being evicted.
C24_WitnessEvicted ==
    /\ issued >= 1
    /\ 1 \notin DOMAIN tasks
    /\ hist[1] = <<"pending">>
    /\ running

\* C25: when a dispatch cycle reaches its sleep, no task that was pending at
\* its scan is still pending.  Under BurstSpec every task is in the store
\* before the first scan, and no cycle runs into an error.
C25_CycleClaimsAllPending ==
    wpc = "sleep" => \A id \in DOMAIN tasks : tasks[id].status # "pending"

\* The task the dispatch loop is about to update is no longer in the store.
ScannedTaskEvicted == wpc \in {"claim", "fail"} /\ scan[idx].id \notin DOMAIN tasks

\* C26: the dispatch loop ends in no step but the one in which stop() clears
\* running and cancels it.  A loop step taken when the scanned task has been
\* evicted writes nothing and puts the loop in its back-off sleep; the
\* back-off sleep can always end, and it ends at the top of the loop; the
\* scan taken there holds every pending task (up to the page size).
C26_LoopEndsOnlyOnStop ==
    [][/\ (wpc # "dead" /\ wpc' = "dead") =>
             (running /\ ~running' /\ stoppc = "idle" /\ stoppc' = "await_worker")
       /\ (ScannedTaskEvicted /\ wpc' \notin {wpc, "dead"}) =>
             (wpc' = "backoff" /\ running' /\ UNCHANGED <<tasks, results, euVars>>)
       /\ wpc = "backoff" => (running /\ ENABLED WorkerWake)
       /\ (wpc = "backoff" /\ wpc' \notin {wpc, "dead"}) => wpc' = "top"
       /\ (wpc = "top" /\ wpc' \notin {wpc, "dead"}) =>
             \A id \in DOMAIN tasks :
                 (tasks[id].status = "pending" /\ Cardinality(DOMAIN tasks) <= DefaultLimit)
                     => \E k \in DOMAIN scan' : scan'[k].id = id]_vars

\* The scanned task was evicted before the loop claimed it: the error has
\* been caught and the loop, still running, is in its back-off sleep.
C26_Witness ==
    /\ wpc = "backoff"
    /\ running
    /\ scan # <<>> /\ scan[idx].id \notin DOMAIN tasks
    /\ hist[scan[idx].id] = <<"pending">>

\* C27: between the return of stop() and the next start() (the scheduler is
\* not running and no stop() is in progress), no step claims a pending
\* task, starts an execution unit or evicts a record.
C27_StoppedSchedulerIdle ==
    [][(~running /\ stoppc = "idle" /\ ~running') =>
           /\ DOMAIN tasks \subseteq DOMAIN tasks'
           /\ \A id \in DOMAIN tasks :
                  tasks[id].status = "pending" => tasks'[id].status = "pending"
           /\ started' = started]_vars

C29_AcquisitionFailureFrames ==
    (spc = "closed" /\ registry = "mlx" /\ ~loaded) =>
        /\ Len(out) = 2
        /\ IsError(out[1])
        /\ out[2] = DoneEvent

\* A step of the streaming request.
StreamStep ==
    \/ spc' # spc
    \/ out' # out
    \/ yielded' # yielded
    \/ gen' # gen
    \/ registry' # registry
    \/ loaded' # loaded

\* C30: no step of a streaming request, from its start to the sentinel,
\* creates, updates or removes a task record or stores a result.
C30_StreamLeavesStoreAlone ==
    [][StreamStep => UNCHANGED <<tasks, results, issued>>]_vars

\* A stream has run to its sentinel after an error while the store held a record that callers created and updated.
C30_Witness ==
    /\ spc = "closed"
    /\ out[Len(out)] = DoneEvent
    /\ IsError(out[Len(out) - 1])
    /\ 1 \in DOMAIN tasks /\ tasks[1].status = "completed"
    /\ issued = 1

\* The same for a stream that ended without an error.
C30_WitnessSuccess ==
    /\ spc = "closed"
    /\ out[Len(out)] = DoneEvent
    /\ IsSuccess(out[Len(out) - 1])
    /\ 1 \in DOMAIN tasks /\ tasks[1].status = "failed"
    /\ 2 \in DOMAIN tasks /\ tasks[2].status = "pending"

\* ------------------------------------------------------ Task Store frames

\* The fields create_task sets and nothing may change afterwards.
Immutable(r) == [id |-> r.id, type |-> r.type, params |-> r.params, created_at |-> r.created_at]

\* C33: an update_task_status call changes, of the record it names, at most
\* status and completed_at, and stores at most that task's result; id,
\* type, params and created_at of the record, every other record and every
\* other result are as before, and no record appears or disappears.
C33_UpdateFrame ==
    [][\A id \in StoreIds, status \in {"completed", "failed"}, result \in BackendReturns :
          (Returns("update_task_status")
             /\ CallUpdateTaskStatus(id, status, result)) =>
              /\ DOMAIN tasks' = DOMAIN tasks
              /\ \A j \in DOMAIN tasks \ {id} : tasks'[j] = tasks[j]
              /\ \A j \in DOMAIN results \ {id} :
                     j \in DOMAIN results' /\ results'[j] = results[j]
              /\ DOMAIN results' \subseteq DOMAIN results \cup {id}
              /\ id \in DOMAIN tasks =>
                     /\ Immutable(tasks'[id]) = Immutable(tasks[id])
                     /\ DOMAIN tasks'[id] \subseteq DOMAIN tasks[id] \cup {"completed_at"}]_vars

\* After a sequence of updates at later times, task 1 is completed with a
\* result, and both records still have the id, type, params and creation
\* time create_task gave them; task 2 is as it was created.
C33_Witness ==
    /\ ret = [op |-> "update_task_status", raised |-> FALSE]
    /\ 1 \in DOMAIN tasks /\ 2 \in DOMAIN tasks
    /\ tasks[1].status = "completed"
    /\ 1 \in DOMAIN results
    /\ "completed_at" \in DOMAIN tasks[1]
    /\ tasks[1].completed_at > tasks[1].created_at
    /\ Immutable(tasks[1]) = Immutable(NewTask(1, "chat_completion", tasks[1].created_at))
    /\ tasks[2] = NewTask(2, "chat_completion", tasks[2].created_at)

\* C35: every id with a stored result has a record; an execution unit that
\* ended on the store's NotFound error, its record evicted, has left
\* neither a record nor a result.
C35_ResultsHaveRecords ==
    /\ DOMAIN results \subseteq DOMAIN tasks
    /\ \A id \in TaskIds :
          eu[id] = "crashed" => id \notin DOMAIN tasks /\ id \notin DOMAIN results

\* The backend call of task 1 returned a value after the record was
\* evicted: the unit has ended and the store is empty.
C35_Witness ==
    /\ eu[1] = "crashed"
    /\ hist[1] = <<"pending", "processing">>
    /\ tasks = EmptyMap
    /\ results = EmptyMap

\* Task 1 was completed with a result and evicted afterwards: the result
\* went with the record.
C35_WitnessEvictedWithResult ==
    /\ hist[1] = <<"pending", "processing", "completed">>
    /\ euOut[1] = Returned(Text(""))
    /\ 1 \notin DOMAIN tasks
    /\ 1 \notin DOMAIN results

\* -------------------------------------------------------- dispatch order

\* The dispatch loop claims the task its for loop is at.
ClaimsScanned ==
    /\ wpc = "claim"
    /\ wpc' \in {"claim", "fail", "sleep"}
    /\ scan[idx].id \in DOMAIN tasks'
    /\ tasks'[scan[idx].id].status = "processing"
    /\ (idx' # idx \/ wpc' # wpc)

\* C39: when the dispatch loop claims a task of its scan, every task of the
\* scan that is newer was claimed earlier in the cycle (it comes before in
\* the scan), and every task of the scan that is older comes after and, if
\* still in the store, is still pending.
C39_NewestClaimedFirst ==
    [][ClaimsScanned =>
          \A k \in DOMAIN scan :
              /\ scan[k].created_at > scan[idx].created_at => k < idx
              /\ scan[k].created_at < scan[idx].created_at =>
                    /\ k > idx
                    /\ scan[k].id \in DOMAIN tasks' =>
                          tasks'[scan[k].id].status = "pending"]_vars

\* One cycle has scanned two tasks created at different times and has
\* claimed the newer one; the older one is still pending.
C39_Witness ==
    /\ wpc \in {"claim", "fail"}
    /\ Len(scan) = 2
    /\ scan[1].created_at > scan[2].created_at
    /\ scan[1].id \in DOMAIN tasks /\ tasks[scan[1].id].status = "processing"
    /\ scan[2].id \in DOMAIN tasks /\ tasks[scan[2].id].status = "pending"

\* --------------------------------------------------------- loop handles

AnsweredCompleted(id) ==
    /\ "op" \in DOMAIN ret /\ ret.op = "status_request"
    /\ ret.id = id
    /\ ret.status_code = 200
    /\ ret.body.status = "completed"

\* C36: a Status request that follows, with nothing in between, a Status
\* request for the same task answered with status completed, gets the same
\* answer: the same code, status and result.
C36_StatusRepeatable ==
    [][\A id \in StoreIds :
          (AnsweredCompleted(id) /\ \E ok \in BOOLEAN : StatusRequest(id, ok))
              => ret' = ret]_vars

\* C38: the record a caller keeps from a list is a snapshot.  An
\* update_task_status call leaves it as it is, and an assignment the caller
\* makes to it (the step that changes the kept record and is no call of
\* the store) leaves the store as it is.
C38_ListSnapshot ==
    [][held # NoRecord =>
          /\ (Returns("update_task_status") /\ tasks' # tasks) => held' = held
          /\ (held' # held /\ ret' = ret) => tasks' = tasks]_vars

\* ----------------------------------------------------------- model loading

\* C37: at most one load() of the model is in flight at any time, however
\* the coroutines that resolve its name interleave.
C37_OneLoadInFlight == Cardinality({p \in Callers : Loading(p)}) <= 1

\* ---------------------------------------------------------------- the lock

\* C31: a coroutine that is inside a call of the backend is in no block of
\* the Task Store, and while it is there the lock is held only when some
\* other coroutine is in a block: a backend call, however long, keeps no
\* create, get, list or update waiting.
C31_NoLockAcrossBackendCall ==
    \A p \in Callers :
        call[p] # "idle" =>
            /\ cs[p] = Outside
            /\ locked => \E q \in Callers \ {p} : cs[q] # Outside

\* A backend call is in progress while another coroutine holds the lock,
\* in the middle of an update_task_status.
C31_Witness ==
    \E p, q \in Callers :
        /\ call[p] = "generating"
        /\ In(q, "update_task_status", "status")
        /\ locked

\* The store as it is between two operations: no result without a record,
\* no completed record without its result, result and completed_at
\* together.
Whole ==
    /\ \A id \in DOMAIN results : id \in DOMAIN tasks
    /\ \A id \in DOMAIN tasks :
           /\ tasks[id].status = "completed" => id \in DOMAIN results
           /\ id \in DOMAIN results <=> "completed_at" \in DOMAIN tasks[id]

\* C32: at most one coroutine is inside a block of the Task Store; a get
\* or a list inside its block finds the store whole, never between the
\* writes of an update_task_status or between the two pops of an eviction;
\* and a completed record a get has returned carries its result and its
\* completed_at.
C32_StoreOperationsAtomic ==
    /\ Cardinality({p \in Callers : cs[p] # Outside}) <= 1
    /\ (\E p \in Callers : cs[p].op \in {"get_task_status", "list_tasks"}) => Whole
    /\ ("value" \in DOMAIN ret /\ ret.op = "get_task_status" /\ ret.value # NoRecord
           /\ ret.value.status = "completed") =>
          {"result", "completed_at"} \subseteq DOMAIN ret.value

\* A get has returned a completed record, written by an update that stored
\* a result.
C32_Witness ==
    /\ \E p \in Callers : In(p, "get_task_status", "done")
    /\ "value" \in DOMAIN ret
    /\ ret.value # NoRecord
    /\ ret.value.status = "completed"

\* A list runs after an eviction that removed a record and its result.
C32_WitnessEviction ==
    /\ \E p \in Callers : In(p, "list_tasks", "entered")
    /\ ret = [op |-> "clean_old_tasks", count |-> 1]
    /\ results = EmptyMap
    /\ issued = 1

====
